---- MODULE Spec2Model ----
(***************************************************************************)
(* Model of the matching / scoring engine of the opportunity-matching      *)
(* backend: the profile-weighted MatchingService (services/matchingService *)
(* .js), the requirement-weighted scorer and the two matching routes       *)
(* (routes/matching.js) and the match-score route (routes/                 *)
(* recommendations.js).                                                    *)
(*                                                                         *)
(* Conventions                                                             *)
(*  - a JavaScript string is a sequence of one-character strings, so that  *)
(*    toLowerCase and includes are computed and not assumed;               *)
(*  - a value that may be undefined/null is None (<<>>) or Some(v)         *)
(*    (<<v>>);                                                             *)
(*  - a JavaScript number that need not be an integer is an exact fraction *)
(*    <<numerator, denominator>> with a positive denominator (IEEE         *)
(*    rounding error of the order of 1e-14 is not modelled);               *)
(*  - a Date is a whole number of days since 1970-01-01 (all instants of   *)
(*    the model are midnights UTC).                                        *)
(***************************************************************************)
EXTENDS Integers, Sequences, FiniteSets, TLC

VARIABLES
    employees,      \* Employee collection, in the store's natural order
    opportunities,  \* Opportunity collection (organization populated)
    applications,   \* Application collection
    handlers,       \* the application-route handlers in flight, by client
    now,            \* the clock: new Date(), in days
    request,        \* the call being served
    response        \* what the call returned

vars == <<employees, opportunities, applications, handlers, now, request, response>>

(***************************************************************************)
(* Values.                                                                 *)
(***************************************************************************)
None == <<>>
Some(v) == <<v>>
IsSome(o) == Len(o) = 1
Get(o) == o[1]

Pending == [status |-> "pending"]

\* No handler of the application routes is in flight.
NoHandlers == <<>>
Ok(v) == [status |-> "ok", value |-> v]

Max(a, b) == IF a >= b THEN a ELSE b
Min(a, b) == IF a <= b THEN a ELSE b

\* Sequences over S of length at most n.
SeqUpTo(S, n) == UNION {[1..k -> S] : k \in 0..n}

(***************************************************************************)
(* Fractions.                                                              *)
(***************************************************************************)
Frac(n, d) == <<n, d>>
FracLeq(a, b) == a[1] * b[2] <= b[1] * a[2]
FracLt(a, b) == a[1] * b[2] < b[1] * a[2]
FracEq(a, b) == a[1] * b[2] = b[1] * a[2]
FracAdd(a, b) == <<a[1] * b[2] + b[1] * a[2], a[2] * b[2]>>

\* Math.round(x): the integer nearest to x, halves rounded up.
MathRound(x) == (2 * x[1] + x[2]) \div (2 * x[2])

(***************************************************************************)
(* Strings.                                                                *)
(***************************************************************************)
LowerChar(c) ==
    CASE c = "A" -> "a" [] c = "B" -> "b" [] c = "C" -> "c" [] c = "D" -> "d"
      [] c = "E" -> "e" [] c = "F" -> "f" [] c = "G" -> "g" [] c = "H" -> "h"
      [] c = "I" -> "i" [] c = "J" -> "j" [] c = "K" -> "k" [] c = "L" -> "l"
      [] c = "M" -> "m" [] c = "N" -> "n" [] c = "O" -> "o" [] c = "P" -> "p"
      [] c = "Q" -> "q" [] c = "R" -> "r" [] c = "S" -> "s" [] c = "T" -> "t"
      [] c = "U" -> "u" [] c = "V" -> "v" [] c = "W" -> "w" [] c = "X" -> "x"
      [] c = "Y" -> "y" [] c = "Z" -> "z"
      [] OTHER -> c

\* String.prototype.toLowerCase
toLowerCase(s) == [i \in 1..Len(s) |-> LowerChar(s[i])]

\* String.prototype.includes: t occurs in s as a contiguous substring.
includes(s, t) ==
    \E i \in 0..(Len(s) - Len(t)) : SubSeq(s, i + 1, i + Len(t)) = t

Python == <<"P", "y", "t", "h", "o", "n">>
python == <<"p", "y", "t", "h", "o", "n">>
SQL == <<"S", "Q", "L">>
Austin == <<"A", "u", "s", "t", "i", "n">>
austin == <<"a", "u", "s", "t", "i", "n">>
Dallas == <<"D", "a", "l", "l", "a", "s">>
TX == <<"T", "X">>
tx == <<"t", "x">>
CA == <<"C", "A">>
US == <<"U", "S">>
IND == <<"I", "N">>

(***************************************************************************)
(* MatchingService.calculateSkillMatch                                     *)
(***************************************************************************)
\* levelScores[level] || 0
SkillLevelScore(level) ==
    CASE level = Some("beginner") -> 1
      [] level = Some("intermediate") -> 2
      [] level = Some("advanced") -> 3
      [] level = Some("expert") -> 4
      [] OTHER -> 0

\* A find that compares the names as written, without lowering their case.
RECURSIVE FindSkillCaseSensitive(_, _)
FindSkillCaseSensitive(employeeSkills, req) ==
    IF employeeSkills = <<>> THEN None
    ELSE IF Head(employeeSkills).name = req.name
         THEN Some(Head(employeeSkills))
         ELSE FindSkillCaseSensitive(Tail(employeeSkills), req)

\* employeeSkills.find(skill => skill.name.toLowerCase() === req.name.toLowerCase())
RECURSIVE FindSkill(_, _)
FindSkill(employeeSkills, req) ==
    IF employeeSkills = <<>> THEN None
    ELSE IF toLowerCase(Head(employeeSkills).name) = toLowerCase(req.name)
         THEN Some(Head(employeeSkills))
         ELSE FindSkill(Tail(employeeSkills), req)

\* req.isRequired: undefined (falsy) on a record that has no such field
IsRequiredFlag(req) == IF "isRequired" \in DOMAIN req THEN req.isRequired ELSE FALSE

\* A pass that lets an absent mandatory skill go unpenalised.
SkillStepNoPenalty(acc, employeeSkills, req) ==
    LET employeeSkill == FindSkill(employeeSkills, req)
        weight == IF IsRequiredFlag(req) THEN 2 ELSE 1
    IN  IF IsSome(employeeSkill)
        THEN LET employeeLevel == SkillLevelScore(Get(employeeSkill).level)
                 requiredLevel == SkillLevelScore(req.level)
                 skillScore12 == IF employeeLevel >= requiredLevel THEN 12
                                 ELSE (12 * employeeLevel) \div requiredLevel
             IN  <<acc[1] + skillScore12 * weight, acc[2] + weight>>
        ELSE acc

\* One pass of the forEach body: acc = <<12 * totalScore, maxPossibleScore>>.
\* skillScore is 1.0 or employeeLevel / requiredLevel; the levels are 0..4,
\* so 12 * skillScore is an integer.
SkillStep(acc, employeeSkills, req) ==
    LET employeeSkill == FindSkill(employeeSkills, req)
        weight == IF IsRequiredFlag(req) THEN 2 ELSE 1
    IN  IF IsSome(employeeSkill)
        THEN LET employeeLevel == SkillLevelScore(Get(employeeSkill).level)
                 requiredLevel == SkillLevelScore(req.level)
                 skillScore12 == IF employeeLevel >= requiredLevel THEN 12
                                 ELSE (12 * employeeLevel) \div requiredLevel
             IN  <<acc[1] + skillScore12 * weight, acc[2] + weight>>
        ELSE IF IsRequiredFlag(req) THEN <<acc[1], acc[2] + 2>>
        ELSE acc

RECURSIVE SkillFold(_, _, _)
SkillFold(acc, employeeSkills, reqs) ==
    IF reqs = <<>> THEN acc
    ELSE SkillFold(SkillStep(acc, employeeSkills, Head(reqs)), employeeSkills, Tail(reqs))

\* A skill matcher that takes an empty requirement list for an automatic pass.
calculateSkillMatchEmptyPass(employeeSkills, orgRequirements) ==
    IF ~IsSome(employeeSkills) \/ ~IsSome(orgRequirements) THEN Frac(0, 1)
    ELSE LET acc == SkillFold(<<0, 0>>, Get(employeeSkills), Get(orgRequirements))
         IN  IF acc[2] > 0 THEN Frac(100 * acc[1], 12 * acc[2]) ELSE Frac(100, 1)

\* employeeSkills and orgRequirements are optional arrays.
calculateSkillMatch(employeeSkills, orgRequirements) ==
    IF ~IsSome(employeeSkills) \/ ~IsSome(orgRequirements) \/ Len(Get(orgRequirements)) = 0
    THEN Frac(0, 1)
    ELSE LET acc == SkillFold(<<0, 0>>, Get(employeeSkills), Get(orgRequirements))
         IN  IF acc[2] > 0 THEN Frac(100 * acc[1], 12 * acc[2]) ELSE Frac(0, 1)

(***************************************************************************)
(* MatchingService.calculateLocationMatch                                  *)
(***************************************************************************)
\* x?.toLowerCase(): undefined stays undefined
OptLower(x) == IF IsSome(x) THEN Some(toLowerCase(Get(x))) ELSE None

\* A location matcher without the remote rule.
calculateLocationMatchNoRemote(employeeLocation, orgLocation, workMode) ==
    IF ~IsSome(employeeLocation) \/ ~IsSome(orgLocation) THEN 50
    ELSE IF OptLower(Get(employeeLocation).city) = OptLower(Get(orgLocation).city) THEN 100
    ELSE IF OptLower(Get(employeeLocation).state) = OptLower(Get(orgLocation).state) THEN 80
    ELSE IF Get(employeeLocation).country = Get(orgLocation).country THEN 60
    ELSE 30

\* A location matcher that tests the work mode before the missing location.
calculateLocationMatchRemoteFirst(employeeLocation, orgLocation, workMode) ==
    IF workMode = Some("remote") THEN 100
    ELSE calculateLocationMatchNoRemote(employeeLocation, orgLocation, workMode)

\* The ladder of part_000:89-111; the locations and the work mode are
\* optional, and so is every field of a location.
calculateLocationMatch(employeeLocation, orgLocation, workMode) ==
    IF ~IsSome(employeeLocation) \/ ~IsSome(orgLocation) THEN 50
    ELSE LET employeeCity == OptLower(Get(employeeLocation).city)
             orgCity == OptLower(Get(orgLocation).city)
             employeeState == OptLower(Get(employeeLocation).state)
             orgState == OptLower(Get(orgLocation).state)
         IN  IF workMode = Some("remote") THEN 100
             ELSE IF employeeCity = orgCity THEN 100
             ELSE IF employeeState = orgState THEN 80
             ELSE IF Get(employeeLocation).country = Get(orgLocation).country THEN 60
             ELSE 30

(***************************************************************************)
(* MatchingService.calculateInterestMatch                                  *)
(***************************************************************************)
\* levelScores[level] || 0
InterestLevelScore(level) ==
    CASE level = Some("casual") -> 1
      [] level = Some("moderate") -> 2
      [] level = Some("passionate") -> 3
      [] level = Some("professional") -> 4
      [] OTHER -> 0

\* importanceScores[importance] || 1
ImportanceScore(importance) ==
    CASE importance = Some("nice-to-have") -> 1
      [] importance = Some("preferred") -> 2
      [] importance = Some("important") -> 3
      [] importance = Some("critical") -> 4
      [] OTHER -> 1

\* employeeInterests.find(interest => same lower-cased name || same category)
RECURSIVE FindInterest(_, _)
FindInterest(employeeInterests, orgInterest) ==
    IF employeeInterests = <<>> THEN None
    ELSE IF \/ toLowerCase(Head(employeeInterests).name) = toLowerCase(orgInterest.name)
            \/ Head(employeeInterests).category = orgInterest.category
         THEN Some(Head(employeeInterests))
         ELSE FindInterest(Tail(employeeInterests), orgInterest)

\* A pass that lets an unmatched preferred interest go unpenalised.
InterestStepNoPenalty(acc, employeeInterests, orgInterest) ==
    LET employeeInterest == FindInterest(employeeInterests, orgInterest)
    IN  IF IsSome(employeeInterest)
        THEN LET employeeLevel == InterestLevelScore(Get(employeeInterest).level)
                 importance == ImportanceScore(orgInterest.importance)
             IN  <<acc[1] + employeeLevel * importance, acc[2] + 4 * importance>>
        ELSE acc

\* One pass of the forEach body: acc = <<16 * totalScore, 16 * maxPossibleScore>>.
InterestStep(acc, employeeInterests, orgInterest) ==
    LET employeeInterest == FindInterest(employeeInterests, orgInterest)
    IN  IF IsSome(employeeInterest)
        THEN LET employeeLevel == InterestLevelScore(Get(employeeInterest).level)
                 importance == ImportanceScore(orgInterest.importance)
             IN  <<acc[1] + employeeLevel * importance, acc[2] + 4 * importance>>
        ELSE <<acc[1], acc[2] + 4>>

RECURSIVE InterestFold(_, _, _)
InterestFold(acc, employeeInterests, orgInterests) ==
    IF orgInterests = <<>> THEN acc
    ELSE InterestFold(InterestStep(acc, employeeInterests, Head(orgInterests)),
                      employeeInterests, Tail(orgInterests))

calculateInterestMatch(employeeInterests, orgInterests) ==
    IF ~IsSome(employeeInterests) \/ ~IsSome(orgInterests) \/ Len(Get(orgInterests)) = 0
    THEN Frac(0, 1)
    ELSE LET acc == InterestFold(<<0, 0>>, Get(employeeInterests), Get(orgInterests))
         IN  IF acc[2] > 0 THEN Frac(100 * acc[1], acc[2]) ELSE Frac(0, 1)

(***************************************************************************)
(* The profile-weighted aggregate (part_000:150, 207; recommendations.js   *)
(* :320).                                                                  *)
(***************************************************************************)
\* (skillScore * 0.5) + (interestScore * 0.3) + (locationScore * 0.2)
WeightedOverall(skillScore, interestScore, locationScore) ==
    Frac(5 * skillScore[1] * interestScore[2]
           + 3 * interestScore[1] * skillScore[2]
           + 2 * locationScore * skillScore[2] * interestScore[2],
         10 * skillScore[2] * interestScore[2])

\* The scores object of a recommendation.
RoundedScores(skillScore, interestScore, locationScore) ==
    [overall |-> MathRound(WeightedOverall(skillScore, interestScore, locationScore)),
     skills |-> MathRound(skillScore),
     interests |-> MathRound(interestScore),
     location |-> MathRound(Frac(locationScore, 1))]

(***************************************************************************)
(* Dates and experience (routes/matching.js).                              *)
(***************************************************************************)
\* new Date("yyyy-mm-dd"): the day number of a civil date, days since
\* 1970-01-01 (proleptic Gregorian calendar, UTC midnight).
DaysFromCivil(year, month, day) ==
    LET y == IF month <= 2 THEN year - 1 ELSE year
        era == y \div 400
        yoe == y - era * 400
        mp == IF month > 2 THEN month - 3 ELSE month + 9
        doy == (153 * mp + 2) \div 5 + day - 1
        doe == yoe * 365 + yoe \div 4 - yoe \div 100 + doy
    IN  era * 146097 + doe - 719468

\* The divisor 1000 * 60 * 60 * 24 * 365 of a millisecond difference, in days.
DaysPerYear == 365

\* The days one entry adds to the total, None for NaN: new Date(undefined)
\* is an invalid date, and Math.max(0, NaN) is NaN.
ExperienceDays(exp, today) ==
    LET endDate == IF exp.isCurrent THEN Some(today) ELSE exp.endDate
    IN  IF IsSome(endDate) THEN Some(Max(0, Get(endDate) - exp.startDate)) ELSE None

\* ExperienceDays without the floor at 0.
ExperienceDaysNoFloor(exp, today) ==
    LET endDate == IF exp.isCurrent THEN Some(today) ELSE exp.endDate
    IN  IF IsSome(endDate) THEN Some(Get(endDate) - exp.startDate) ELSE None

\* experience.reduce(...): the total in days (the total in years times
\* DaysPerYear), None for NaN.
RECURSIVE TotalExperienceDays(_, _, _)
TotalExperienceDays(total, experience, today) ==
    IF experience = <<>> THEN total
    ELSE LET days == ExperienceDays(Head(experience), today)
         IN  TotalExperienceDays(
                 IF IsSome(total) /\ IsSome(days) THEN Some(Get(total) + Get(days)) ELSE None,
                 Tail(experience), today)

\* Total experience in years, as a fraction, None for NaN.
calculateTotalExperience(experience, today) ==
    LET days == TotalExperienceDays(Some(0), experience, today)
    IN  IF IsSome(days) THEN Some(Frac(Get(days), DaysPerYear)) ELSE None

(***************************************************************************)
(* Education (routes/matching.js).                                         *)
(***************************************************************************)
HighSchool == <<"h", "i", "g", "h", "-", "s", "c", "h", "o", "o", "l">>
Associate == <<"a", "s", "s", "o", "c", "i", "a", "t", "e">>
Bachelor == <<"b", "a", "c", "h", "e", "l", "o", "r">>
BachelorCap == <<"B", "a", "c", "h", "e", "l", "o", "r">>
Master == <<"m", "a", "s", "t", "e", "r">>
PhD == <<"p", "h", "d">>
PhDCap == <<"P", "h", "D">>
AnyLevel == <<"a", "n", "y">>

EducationLevels == <<HighSchool, Associate, Bachelor, Master, PhD>>

\* Array.prototype.indexOf on an optional value: the 0-based position, or -1.
IndexOf(array, x) ==
    IF IsSome(x) /\ \E i \in 1..Len(array) : array[i] = Get(x)
    THEN (CHOOSE i \in 1..Len(array) :
              array[i] = Get(x) /\ \A j \in 1..(i - 1) : array[j] # Get(x)) - 1
    ELSE -1

RECURSIVE HighestEducationFold(_, _)
HighestEducationFold(highestLevel, education) ==
    IF education = <<>> THEN highestLevel
    ELSE LET degree == toLowerCase(Head(education).degree)
         IN  HighestEducationFold(
                 IF IndexOf(EducationLevels, Some(degree)) > IndexOf(EducationLevels, Some(highestLevel))
                 THEN degree ELSE highestLevel,
                 Tail(education))

getHighestEducation(education) == HighestEducationFold(HighSchool, education)

\* A comparison that wants the employee's rank strictly above the required
\* one.
isEducationMatchStrict(required, employee) ==
    IndexOf(EducationLevels, Some(employee)) > IndexOf(EducationLevels, required)

isEducationMatch(required, employee) ==
    IndexOf(EducationLevels, Some(employee)) >= IndexOf(EducationLevels, required)

(***************************************************************************)
(* calculateMatchScore (routes/matching.js:279-347).  The five terms are   *)
(* kept apart in the result so that each can be inspected; the code adds   *)
(* them into score as it goes.                                             *)
(***************************************************************************)
\* Skills matching (40% weight)
SkillsTerm(opportunity, employee) ==
    LET skills == opportunity.requirements.skills
    IN  IF Len(skills) > 0
        THEN LET requiredSkills == [i \in 1..Len(skills) |-> toLowerCase(skills[i].name)]
                 employeeSkills == [i \in 1..Len(employee.skills) |->
                                        toLowerCase(employee.skills[i].name)]
                 matchingSkills ==
                     SelectSeq(requiredSkills, LAMBDA skill :
                         \E i \in 1..Len(employeeSkills) :
                             \/ includes(employeeSkills[i], skill)
                             \/ includes(skill, employeeSkills[i]))
             IN  Frac(Len(matchingSkills) * 40, Len(requiredSkills))
        ELSE Frac(0, 1)

\* An experience term without the full-credit branch.
ExperienceTermUncapped(opportunity, employee, today) ==
    LET minYears == opportunity.requirements.experience.minYears
    IN  IF IsSome(minYears) /\ Get(minYears) # 0
        THEN LET employeeExperience == calculateTotalExperience(employee.experience, today)
             IN  IF ~IsSome(employeeExperience) THEN None
                 ELSE Some(Frac(Get(employeeExperience)[1] * 25,
                                Get(employeeExperience)[2] * Get(minYears)))
        ELSE Some(Frac(0, 1))

\* An experience term that scores a minimum of 0 years like any other.
ExperienceTermZeroCounts(opportunity, employee, today) ==
    LET minYears == opportunity.requirements.experience.minYears
    IN  IF IsSome(minYears)
        THEN LET requiredExperience == Get(minYears)
                 employeeExperience == calculateTotalExperience(employee.experience, today)
             IN  IF ~IsSome(employeeExperience) THEN None
                 ELSE IF FracLeq(Frac(requiredExperience, 1), Get(employeeExperience))
                 THEN Some(Frac(25, 1))
                 ELSE Some(Frac(Get(employeeExperience)[1] * 25,
                                Get(employeeExperience)[2] * requiredExperience))
        ELSE Some(Frac(0, 1))

\* Experience matching (25% weight); None for NaN.  minYears is tested for
\* truthiness: undefined and 0 skip the term.
ExperienceTerm(opportunity, employee, today) ==
    LET minYears == opportunity.requirements.experience.minYears
    IN  IF IsSome(minYears) /\ Get(minYears) # 0
        THEN LET requiredExperience == Get(minYears)
                 employeeExperience == calculateTotalExperience(employee.experience, today)
             IN  IF ~IsSome(employeeExperience) THEN None
                 ELSE IF FracLeq(Frac(requiredExperience, 1), Get(employeeExperience))
                 THEN Some(Frac(25, 1))
                 ELSE Some(Frac(Get(employeeExperience)[1] * 25,
                                Get(employeeExperience)[2] * requiredExperience))
        ELSE Some(Frac(0, 1))

\* Location matching (15% weight); "throw" when employee.location.city is
\* undefined and toLowerCase is called on it.
LocationTerm(opportunity, employee) ==
    IF opportunity.location.type = Some("on-site")
       /\ IsSome(opportunity.location.city) /\ Get(opportunity.location.city) # <<>>
    THEN IF ~IsSome(employee.location.city) THEN [status |-> "throw"]
         ELSE IF toLowerCase(Get(employee.location.city))
                   = toLowerCase(Get(opportunity.location.city)) THEN Ok(15)
         ELSE IF employee.location.state = opportunity.location.state THEN Ok(10)
         ELSE IF employee.location.country = opportunity.location.country THEN Ok(5)
         ELSE Ok(0)
    ELSE IF opportunity.location.type = Some("remote")
    THEN IF \E i \in 1..Len(employee.preferences.workMode) :
                employee.preferences.workMode[i] = "remote"
         THEN Ok(15) ELSE Ok(0)
    ELSE Ok(0)

\* Education matching (10% weight)
EducationTerm(opportunity, employee) ==
    IF Len(opportunity.requirements.education) > 0
    THEN LET requiredEducation == opportunity.requirements.education[1]
             employeeEducation == getHighestEducation(employee.education)
         IN  IF isEducationMatch(requiredEducation.level, employeeEducation) THEN 10 ELSE 0
    ELSE 0

\* Preferences matching (10% weight); the organization is looked up by id.
PreferencesTerm(opportunity, employee) ==
    IF Len(employee.preferences.industries) > 0
    THEN IF /\ IsSome(opportunity.organization)
            /\ \E i \in 1..Len(employee.preferences.industries) :
                   employee.preferences.industries[i] = Get(opportunity.organization).industry
         THEN 10 ELSE 0
    ELSE 0

\* A denominator that leaves out the share of the industry preference.
MaxScoreWithoutPreferences == 40 + 25 + 15 + 10

\* The denominator: maxScore += 40, 25, 15, 10, 10.
MaxScore == 40 + 25 + 15 + 10 + 10

\* status "ok" with the rounded value, "NaN" when the sum is not a number,
\* "throw" when the function throws.
calculateMatchScore(opportunity, employee, today) ==
    LET skillsTerm == SkillsTerm(opportunity, employee)
        experienceTerm == ExperienceTerm(opportunity, employee, today)
        locationTerm == LocationTerm(opportunity, employee)
        educationTerm == EducationTerm(opportunity, employee)
        preferencesTerm == PreferencesTerm(opportunity, employee)
    IN  IF locationTerm.status = "throw" THEN [status |-> "throw"]
        ELSE IF ~IsSome(experienceTerm)
        THEN [status |-> "NaN",
              terms |-> [skills |-> skillsTerm, experience |-> experienceTerm,
                         location |-> locationTerm.value, education |-> educationTerm,
                         preferences |-> preferencesTerm]]
        ELSE LET score == FracAdd(FracAdd(skillsTerm, Get(experienceTerm)),
                                  Frac(locationTerm.value + educationTerm + preferencesTerm, 1))
             IN  [status |-> "ok",
                  value |-> MathRound(Frac(score[1] * 100, score[2] * MaxScore)),
                  terms |-> [skills |-> skillsTerm, experience |-> experienceTerm,
                             location |-> locationTerm.value, education |-> educationTerm,
                             preferences |-> preferencesTerm]]

(***************************************************************************)
(* Specification of the skill matcher as a function of its two arguments.  *)
(***************************************************************************)
MaxEmployeeSkills == 2
MaxRequiredSkills == 2

SkillLevels == {"beginner", "intermediate", "advanced", "expert"}
EmployeeSkillNames == {Python, SQL}
RequiredSkillNames == {python, SQL}

EmployeeSkillLevels == SkillLevels \ {"intermediate"}
EmployeeSkillRecords ==
    [name : EmployeeSkillNames, level : {Some(l) : l \in EmployeeSkillLevels}]
RequiredSkillLevels == SkillLevels \ {"beginner", "expert"}
RequiredSkillRecords ==
    [name : RequiredSkillNames, level : {Some(l) : l \in RequiredSkillLevels},
     isRequired : BOOLEAN]

SkillInit ==
    /\ employees = <<>>
    /\ opportunities = <<>>
    /\ applications = {}
    /\ handlers = NoHandlers
    /\ now = 0
    /\ \E es \in {None} \cup {Some(s) : s \in SeqUpTo(EmployeeSkillRecords, MaxEmployeeSkills)},
          rs \in {None} \cup {Some(s) : s \in SeqUpTo(RequiredSkillRecords, MaxRequiredSkills)} :
            request = [fn |-> "calculateSkillMatch", employeeSkills |-> es, orgRequirements |-> rs]
    /\ response = Pending

CallSkillMatch ==
    /\ request.fn = "calculateSkillMatch"
    /\ response = Pending
    /\ response' = Ok(calculateSkillMatch(request.employeeSkills, request.orgRequirements))
    /\ UNCHANGED <<employees, opportunities, applications, handlers, now, request>>

SkillNext == CallSkillMatch

SkillSpec == SkillInit /\ [][SkillNext]_vars

(***************************************************************************)
(* Properties of the skill matcher.                                        *)
(***************************************************************************)
SkillCallDone == request.fn = "calculateSkillMatch" /\ response.status = "ok"

\* The employee holds, somewhere in the list, a skill of req's name
\* (case-insensitively) at or above req's level.
HoldsAtLevel(es, req) ==
    \E i \in 1..Len(es) :
        /\ toLowerCase(es[i].name) = toLowerCase(req.name)
        /\ SkillLevelScore(es[i].level) >= SkillLevelScore(req.level)

\* The first skill of req's name in the employee's list is at or above
\* req's level.
FirstHoldsAtLevel(es, req) ==
    \E i \in 1..Len(es) :
        /\ toLowerCase(es[i].name) = toLowerCase(req.name)
        /\ SkillLevelScore(es[i].level) >= SkillLevelScore(req.level)
        /\ \A j \in 1..(i - 1) : toLowerCase(es[j].name) # toLowerCase(req.name)

HoldsName(es, req) == \E i \in 1..Len(es) : toLowerCase(es[i].name) = toLowerCase(req.name)

\* The required list without its optional skills that the employee lacks.
WithoutAbsentOptional(es, rs) ==
    SelectSeq(rs, LAMBDA req : req.isRequired \/ HoldsName(es, req))

\* C6 as stated: calculateSkillMatch returns exactly 100 whenever the
\* required list is non-empty and the employee possesses, for every required
\* skill, some skill of the same name (case-insensitively) at or above the
\* required level.
C6_AnyHeldSkillGives100 ==
    (/\ SkillCallDone
     /\ IsSome(request.employeeSkills) /\ IsSome(request.orgRequirements)
     /\ Len(Get(request.orgRequirements)) > 0
     /\ \A k \in 1..Len(Get(request.orgRequirements)) :
            HoldsAtLevel(Get(request.employeeSkills), Get(request.orgRequirements)[k]))
    => FracEq(response.value, Frac(100, 1))

\* C6 amended: calculateSkillMatch returns exactly 100 whenever the required
\* list is non-empty and, for every required skill, the FIRST skill of the
\* same name (case-insensitively) in the employee's list is at or above the
\* required level; and optional required skills that the employee lacks
\* never lower the result: the score is the score against the list without
\* them.
C6_FirstHeldSkillGives100 ==
    /\ (/\ SkillCallDone
         /\ IsSome(request.employeeSkills) /\ IsSome(request.orgRequirements)
         /\ Len(Get(request.orgRequirements)) > 0
         /\ \A k \in 1..Len(Get(request.orgRequirements)) :
                FirstHoldsAtLevel(Get(request.employeeSkills), Get(request.orgRequirements)[k]))
        => FracEq(response.value, Frac(100, 1))
    /\ (/\ SkillCallDone
         /\ IsSome(request.employeeSkills) /\ IsSome(request.orgRequirements))
        => FracEq(response.value,
                  calculateSkillMatch(request.employeeSkills,
                      Some(WithoutAbsentOptional(Get(request.employeeSkills),
                                                 Get(request.orgRequirements)))))

\* The spec's scenario: Python at expert against a mandatory python at
\* intermediate has been scored, together with a second required skill.
C6_Witness ==
    /\ SkillCallDone
    /\ request.employeeSkills = Some(<<[name |-> Python, level |-> Some("expert")],
                                       [name |-> SQL, level |-> Some("advanced")]>>)
    /\ request.orgRequirements =
          Some(<<[name |-> python, level |-> Some("intermediate"), isRequired |-> TRUE],
                 [name |-> SQL, level |-> Some("intermediate"), isRequired |-> FALSE]>>)
    /\ response.value = Frac(100 * 36, 12 * 3)

\* The first possessed skill of req's name (case-insensitively).
FirstHeld(es, req) ==
    es[CHOOSE i \in 1..Len(es) :
           /\ toLowerCase(es[i].name) = toLowerCase(req.name)
           /\ \A j \in 1..(i - 1) : toLowerCase(es[j].name) # toLowerCase(req.name)]

\* skillScore * weight of the k-th required skill as the claim words it, a
\* fraction; 0 when the skill is not held.
ClaimedSkillScore(es, req) ==
    IF ~HoldsName(es, req) THEN Frac(0, 1)
    ELSE LET possessed == SkillLevelScore(FirstHeld(es, req).level)
             required == SkillLevelScore(req.level)
             weight == IF req.isRequired THEN 2 ELSE 1
         IN  IF possessed >= required THEN Frac(weight, 1)
             ELSE Frac(possessed * weight, required)

\* What the k-th required skill adds to maxPossibleScore.
ClaimedSkillMax(es, req) ==
    IF HoldsName(es, req) THEN (IF req.isRequired THEN 2 ELSE 1)
    ELSE IF req.isRequired THEN 2 ELSE 0

\* <<totalScore, maxPossibleScore>> over the required skills k..Len(rs).
RECURSIVE ClaimedSkillTotals(_, _, _)
ClaimedSkillTotals(es, rs, k) ==
    IF k > Len(rs) THEN <<Frac(0, 1), 0>>
    ELSE LET rest == ClaimedSkillTotals(es, rs, k + 1)
         IN  <<FracAdd(ClaimedSkillScore(es, rs[k]), rest[1]),
               ClaimedSkillMax(es, rs[k]) + rest[2]>>

\* C15: for any possessed list and any non-empty required list,
\* calculateSkillMatch equals 100 * totalScore / maxPossibleScore (0 when
\* maxPossibleScore is 0), where a required skill matched by name adds
\* skillScore * weight to totalScore and weight to maxPossibleScore (weight
\* 2 if isRequired else 1; skillScore 1 if the possessed level is at or
\* above the required one, else possessed / required), an unmatched
\* mandatory skill adds 2 to maxPossibleScore only and an unmatched optional
\* skill adds nothing; so no skills against one mandatory skill score 0.
C15_SkillFormula ==
    (/\ SkillCallDone
     /\ IsSome(request.employeeSkills) /\ IsSome(request.orgRequirements)
     /\ Len(Get(request.orgRequirements)) > 0)
    => LET totals == ClaimedSkillTotals(Get(request.employeeSkills),
                                        Get(request.orgRequirements), 1)
       IN  /\ totals[2] > 0 =>
                  FracEq(response.value,
                         Frac(100 * totals[1][1], totals[1][2] * totals[2]))
           /\ totals[2] = 0 => FracEq(response.value, Frac(0, 1))
           /\ (Get(request.employeeSkills) = <<>>
               /\ Len(Get(request.orgRequirements)) = 1
               /\ Get(request.orgRequirements)[1].isRequired)
              => FracEq(response.value, Frac(0, 1))

\* The scenario has been scored: no skills against a mandatory SQL at
\* advanced gives 0 of a maxPossibleScore of 2.
C15_Witness ==
    /\ SkillCallDone
    /\ request.employeeSkills = Some(<<>>)
    /\ request.orgRequirements =
          Some(<<[name |-> SQL, level |-> Some("advanced"), isRequired |-> TRUE]>>)
    /\ ClaimedSkillTotals(<<>>, Get(request.orgRequirements), 1)[2] = 2
    /\ FracEq(response.value, Frac(0, 1))

\* C7: calculateSkillMatch returns 0 whenever the required-skills list is
\* empty or missing, for every list of possessed skills.
C7_EmptyRequiredGivesZero ==
    (/\ SkillCallDone
     /\ \/ ~IsSome(request.orgRequirements)
        \/ Len(Get(request.orgRequirements)) = 0)
    => FracEq(response.value, Frac(0, 1))

\* An employee with two skills has been scored against an empty list.
C7_Witness ==
    /\ SkillCallDone
    /\ request.orgRequirements = Some(<<>>)
    /\ IsSome(request.employeeSkills)
    /\ Len(Get(request.employeeSkills)) = 2
    /\ response.value[1] = 0

(***************************************************************************)
(* Specification of the location matcher as a function of its arguments.   *)
(***************************************************************************)
Cities == {None, Some(Austin), Some(austin), Some(Dallas)}
States == {None, Some(TX), Some(tx), Some(CA)}
Countries == {None, Some(US), Some(IND)}
LocationRecords == [city : Cities, state : States, country : Countries]
WorkModes == {None, Some("remote"), Some("on-site"), Some("hybrid")}

LocationInit ==
    /\ employees = <<>>
    /\ opportunities = <<>>
    /\ applications = {}
    /\ handlers = NoHandlers
    /\ now = 0
    /\ \E el \in {None} \cup {Some(l) : l \in LocationRecords},
          ol \in {None} \cup {Some(l) : l \in LocationRecords},
          wm \in WorkModes :
            request = [fn |-> "calculateLocationMatch", employeeLocation |-> el,
                       orgLocation |-> ol, workMode |-> wm]
    /\ response = Pending

CallLocationMatch ==
    /\ request.fn = "calculateLocationMatch"
    /\ response = Pending
    /\ response' = Ok(calculateLocationMatch(request.employeeLocation,
                                             request.orgLocation, request.workMode))
    /\ UNCHANGED <<employees, opportunities, applications, handlers, now, request>>

LocationNext == CallLocationMatch

LocationSpec == LocationInit /\ [][LocationNext]_vars

(***************************************************************************)
(* Properties of the location matcher.                                     *)
(***************************************************************************)
LocationCallDone == request.fn = "calculateLocationMatch" /\ response.status = "ok"

\* C8: with both location records supplied, calculateLocationMatch returns
\* exactly 100 whenever workMode is 'remote', whatever the city, state and
\* country of the two locations (present, absent, equal or different).
C8_RemoteGives100 ==
    (/\ LocationCallDone
     /\ request.workMode = Some("remote")
     /\ IsSome(request.employeeLocation) /\ IsSome(request.orgLocation))
    => response.value = 100

\* A remote call whose two locations differ in city, state and country has
\* returned 100.
C8_Witness ==
    /\ LocationCallDone
    /\ request.workMode = Some("remote")
    /\ request.employeeLocation = Some([city |-> Some(Austin), state |-> Some(TX), country |-> Some(US)])
    /\ request.orgLocation = Some([city |-> Some(Dallas), state |-> Some(CA), country |-> Some(IND)])
    /\ response.value = 100

\* Two optional strings are the same ignoring case (two absent ones are the
\* same, as undefined === undefined).
SameIgnoringCase(a, b) ==
    \/ ~IsSome(a) /\ ~IsSome(b)
    \/ IsSome(a) /\ IsSome(b) /\ toLowerCase(Get(a)) = toLowerCase(Get(b))

\* The rule of the claim's ladder that applies first.
FirstRule(el, ol, wm) ==
    CASE ~IsSome(el) \/ ~IsSome(ol) -> "missing"
      [] OTHER ->
         CASE wm = Some("remote") -> "remote"
           [] OTHER ->
              CASE SameIgnoringCase(Get(el).city, Get(ol).city) -> "city"
                [] OTHER ->
                   CASE SameIgnoringCase(Get(el).state, Get(ol).state) -> "state"
                     [] OTHER ->
                        CASE Get(el).country = Get(ol).country -> "country"
                          [] OTHER -> "else"

RuleValue(rule) ==
    CASE rule = "missing" -> 50
      [] rule = "remote" -> 100
      [] rule = "city" -> 100
      [] rule = "state" -> 80
      [] rule = "country" -> 60
      [] rule = "else" -> 30

AustinTXUS == Some([city |-> Some(Austin), state |-> Some(TX), country |-> Some(US)])
DallasTXUS == Some([city |-> Some(Dallas), state |-> Some(TX), country |-> Some(US)])

\* C9: calculateLocationMatch always returns a value in {100, 80, 60, 50,
\* 30}: the value of the first rule that applies in the order missing
\* location (50), remote (100), same city ignoring case (100), same state
\* (80; the code also ignores case here), same country (60, as written),
\* otherwise 30; Austin/TX/US against Dallas/TX/US on-site gives 80.
C9_LocationLadder ==
    LocationCallDone =>
        /\ response.value \in {100, 80, 60, 50, 30}
        /\ response.value = RuleValue(FirstRule(request.employeeLocation,
                                                request.orgLocation, request.workMode))
        /\ (/\ request.employeeLocation = AustinTXUS
             /\ request.orgLocation = DallasTXUS
             /\ request.workMode = Some("on-site")) => response.value = 80

\* The spec's scenario has been evaluated and gave 80.
C9_Witness ==
    /\ LocationCallDone
    /\ request.employeeLocation = AustinTXUS
    /\ request.orgLocation = DallasTXUS
    /\ request.workMode = Some("on-site")
    /\ response.value = 80

(***************************************************************************)
(* Records of the three collections.                                       *)
(***************************************************************************)
Technology == <<"t", "e", "c", "h">>
Finance == <<"f", "i", "n">>
Coding == <<"c", "o", "d", "i", "n", "g">>
CodingCap == <<"C", "o", "d", "i", "n", "g">>
Chess == <<"c", "h", "e", "s", "s">>

AustinTXUSLocation == [city |-> Some(Austin), state |-> Some(TX), country |-> Some(US)]
DallasTXUSLocation == [city |-> Some(Dallas), state |-> Some(TX), country |-> Some(US)]
DallasCAINLocation == [city |-> Some(Dallas), state |-> Some(CA), country |-> Some(IND)]

\* An Employee document (employeeSchema); location.city, state and country
\* are required by the schema, the arrays default to [].
Employee(id, skills, interests, location, experience, education, workMode, industries, createdAt) ==
    [_id |-> id, skills |-> skills, interests |-> interests, location |-> location,
     experience |-> experience, education |-> education,
     preferences |-> [workMode |-> workMode, industries |-> industries],
     isActive |-> TRUE, isProfileComplete |-> TRUE, createdAt |-> createdAt]

\* An Organization document (organizationSchema).
Organization(id, industry, location, preferredSkills, preferredInterests) ==
    [_id |-> id, industry |-> industry, location |-> location,
     requirements |-> [preferredSkills |-> preferredSkills,
                       preferredInterests |-> preferredInterests]]

\* An Opportunity document (opportunitySchema) with its organization
\* populated (None when the reference dangles).
Opportunity(id, organization, skills, minYears, education, location, type, deadline, createdAt) ==
    [_id |-> id, organization |-> organization,
     requirements |-> [skills |-> skills, education |-> education,
                       experience |-> [minYears |-> minYears]],
     location |-> location, type |-> type, category |-> "engineering",
     application |-> [deadline |-> deadline],
     status |-> "active", visibility |-> "public", isActive |-> TRUE,
     createdAt |-> createdAt]

RemoteLocation == [type |-> Some("remote"), city |-> None, state |-> None, country |-> None]
OnSiteIn(l) == [type |-> Some("on-site"), city |-> l.city, state |-> l.state, country |-> l.country]
HybridIn(l) == [type |-> Some("hybrid"), city |-> l.city, state |-> l.state, country |-> l.country]

(***************************************************************************)
(* Specification of the two aggregators as functions of the records: the   *)
(* requirement-weighted calculateMatchScore and the profile-weighted       *)
(* match-score route.                                                      *)
(***************************************************************************)
MaxExperienceEntries == 2
MaxMinYears == 5

Today == DaysFromCivil(2024, 1, 1)
ExperienceDates == {DaysFromCivil(2019, 1, 1), DaysFromCivil(2022, 1, 1), DaysFromCivil(2023, 1, 1)}
ExperienceEntries ==
    [startDate : ExperienceDates, endDate : {None} \cup {Some(d) : d \in ExperienceDates},
     isCurrent : BOOLEAN]
MinYearsValues == {None} \cup {Some(n) : n \in 0..MaxMinYears}

TechOrganization == Organization(1, Technology, AustinTXUSLocation, <<>>, <<>>)

\* calculateMatchScore over experience lists and minimum years.
ScoreInitExperience ==
    \E experience \in SeqUpTo(ExperienceEntries, MaxExperienceEntries),
       minYears \in MinYearsValues :
        request = [fn |-> "calculateMatchScore",
                   opportunity |-> Opportunity(1, Some(TechOrganization), <<>>, minYears,
                                               <<>>, HybridIn(AustinTXUSLocation), "job", None, 1),
                   employee |-> Employee(1, <<>>, <<>>, AustinTXUSLocation, experience,
                                         <<>>, <<>>, <<>>, 1)]

OpportunitySkillLists ==
    {<<>>,
     <<[name |-> python, level |-> Some("intermediate"), required |-> TRUE]>>,
     <<[name |-> SQL, level |-> Some("advanced"), required |-> TRUE],
       [name |-> Python, level |-> None, required |-> FALSE]>>}
EmployeeSkillLists ==
    {<<[name |-> Python, level |-> Some("expert")]>>,
     <<[name |-> SQL, level |-> Some("beginner")], [name |-> python, level |-> Some("advanced")]>>}
EducationRequirements ==
    {<<>>, <<[level |-> Some(Bachelor)]>>, <<[level |-> Some(AnyLevel)]>>}
EducationLists ==
    {<<>>, <<[degree |-> BachelorCap]>>, <<[degree |-> Master], [degree |-> Associate]>>}
OpportunityLocations ==
    {RemoteLocation, OnSiteIn(AustinTXUSLocation), OnSiteIn(DallasCAINLocation),
     [type |-> Some("on-site"), city |-> None, state |-> None, country |-> None]}
EmployeeLocations == {DallasTXUSLocation,
                      [city |-> Some(austin), state |-> Some(tx), country |-> Some(US)]}
ExperienceLists ==
    {<<>>,
     <<[startDate |-> DaysFromCivil(2019, 1, 1), endDate |-> Some(DaysFromCivil(2022, 1, 1)),
        isCurrent |-> FALSE]>>,
     <<[startDate |-> DaysFromCivil(2019, 1, 1), endDate |-> None, isCurrent |-> TRUE]>>,
     <<[startDate |-> DaysFromCivil(2019, 1, 1), endDate |-> None, isCurrent |-> FALSE]>>}

\* calculateMatchScore over every combination of the record parts above.
ScoreInitRequirement ==
    \E skills \in OpportunitySkillLists, minYears \in {None, Some(0), Some(5)},
       education \in EducationRequirements, location \in OpportunityLocations,
       organization \in {None, Some(TechOrganization)},
       employeeSkills \in EmployeeSkillLists, employeeLocation \in EmployeeLocations,
       experience \in ExperienceLists, employeeEducation \in EducationLists,
       workMode \in {<<>>, <<"remote", "hybrid">>},
       industries \in {<<>>, <<Finance, Technology>>} :
        request = [fn |-> "calculateMatchScore",
                   opportunity |-> Opportunity(1, organization, skills, minYears, education,
                                               location, "job", None, 1),
                   employee |-> Employee(1, employeeSkills, <<>>, employeeLocation, experience,
                                         employeeEducation, workMode, industries, 1)]

InterestLevels == {"casual", "moderate", "passionate", "professional"}
Importances == {"nice-to-have", "preferred", "important", "critical"}
EmployeeInterestLists ==
    {<<>>,
     <<[name |-> CodingCap, category |-> Some("technology"), level |-> Some("casual")]>>,
     <<[name |-> Chess, category |-> Some("gaming"), level |-> Some("professional")],
       [name |-> Coding, category |-> None, level |-> Some("passionate")]>>}
PreferredInterestLists ==
    {<<>>,
     <<[name |-> Coding, category |-> Some("technology"), importance |-> Some("critical")]>>,
     <<[name |-> Chess, category |-> Some("sports"), importance |-> None],
       [name |-> Coding, category |-> Some("business"), importance |-> Some("important")]>>}

PreferredSkillLists ==
    {<<>>,
     <<[name |-> python, level |-> Some("intermediate"), isRequired |-> TRUE]>>,
     <<[name |-> SQL, level |-> Some("advanced"), isRequired |-> FALSE]>>,
     <<[name |-> python, level |-> None, isRequired |-> TRUE]>>,
     <<[name |-> SQL, level |-> Some("expert"), isRequired |-> TRUE],
       [name |-> python, level |-> Some("advanced"), isRequired |-> FALSE]>>}

\* The match-score route over skills, interests and locations.
ScoreInitProfile ==
    \E employeeSkills \in SeqUpTo(EmployeeSkillRecords, MaxEmployeeSkills),
       preferredSkills \in PreferredSkillLists,
       interests \in EmployeeInterestLists, preferredInterests \in PreferredInterestLists,
       employeeLocation \in {AustinTXUSLocation, DallasCAINLocation},
       location \in {AustinTXUSLocation, DallasTXUSLocation, DallasCAINLocation} :
        request = [fn |-> "matchScoreRoute",
                   employee |-> Employee(1, employeeSkills, interests, employeeLocation,
                                         <<>>, <<>>, <<>>, <<>>, 1),
                   organization |-> Organization(1, Technology, location, preferredSkills,
                                                 preferredInterests)]

\* Employee locations with a sub-field missing.
IncompleteLocations ==
    {[city |-> None, state |-> Some(TX), country |-> Some(US)],
     [city |-> Some(Austin), state |-> None, country |-> None]}

\* calculateMatchScore over employees whose location lacks a sub-field.
ScoreInitMissing ==
    \E skills \in OpportunitySkillLists, location \in OpportunityLocations,
       employeeSkills \in {<<>>} \cup EmployeeSkillLists,
       employeeLocation \in IncompleteLocations :
        request = [fn |-> "calculateMatchScore",
                   opportunity |-> Opportunity(1, Some(TechOrganization), skills, None, <<>>,
                                               location, "job", None, 1),
                   employee |-> Employee(1, employeeSkills, <<>>, employeeLocation, <<>>,
                                         <<>>, <<>>, <<>>, 1)]

\* calculateMatchScore over education requirements and education entries:
\* the levels of the opportunity schema's enum, and degrees as free text.
MaxEducationEntries == 2
MaxEducationRequirements == 2
BSc == <<"B", "S", "c">>
RequirementLevels == {HighSchool, Associate, Bachelor, Master, PhD, AnyLevel}
Degrees == {HighSchool, Associate, BachelorCap, Master, PhDCap, BSc}

ScoreInitEducation ==
    \E education \in SeqUpTo([level : {Some(l) : l \in RequirementLevels}],
                              MaxEducationRequirements),
       employeeEducation \in SeqUpTo([degree : Degrees], MaxEducationEntries) :
        request = [fn |-> "calculateMatchScore",
                   opportunity |-> Opportunity(1, Some(TechOrganization), <<>>, None,
                                               education, RemoteLocation, "job", None, 1),
                   employee |-> Employee(1, <<>>, <<>>, AustinTXUSLocation, <<>>,
                                         employeeEducation, <<>>, <<>>, 1)]

ScoreInit ==
    /\ employees = <<>>
    /\ opportunities = <<>>
    /\ applications = {}
    /\ handlers = NoHandlers
    /\ now = Today
    /\ (\/ ScoreInitExperience \/ ScoreInitRequirement \/ ScoreInitProfile
        \/ ScoreInitMissing \/ ScoreInitEducation)
    /\ response = Pending

CallMatchScore ==
    /\ request.fn = "calculateMatchScore"
    /\ response = Pending
    /\ response' = calculateMatchScore(request.opportunity, request.employee, now)
    /\ UNCHANGED <<employees, opportunities, applications, handlers, now, request>>

\* GET /match-score/:employeeId/:organizationId (recommendations.js:304-330)
CallMatchScoreRoute ==
    /\ request.fn = "matchScoreRoute"
    /\ response = Pending
    /\ LET skillScore == calculateSkillMatch(Some(request.employee.skills),
                              Some(request.organization.requirements.preferredSkills))
           interestScore == calculateInterestMatch(Some(request.employee.interests),
                              Some(request.organization.requirements.preferredInterests))
           locationScore == calculateLocationMatch(Some(request.employee.location),
                              Some(request.organization.location), Some("hybrid"))
       IN  response' = Ok(RoundedScores(skillScore, interestScore, locationScore))
    /\ UNCHANGED <<employees, opportunities, applications, handlers, now, request>>

ScoreNext == CallMatchScore \/ CallMatchScoreRoute

ScoreSpec == ScoreInit /\ [][ScoreNext]_vars

(***************************************************************************)
(* Properties of the aggregators.                                          *)
(***************************************************************************)
MatchScoreCallDone == request.fn = "calculateMatchScore" /\ response.status # "pending"
MatchScoreRouteDone == request.fn = "matchScoreRoute" /\ response.status = "ok"

\* C3: the overall score produced by either aggregator is an integer in
\* the closed range [0,100], for every employee, opportunity and
\* organization record with valid enum values and non-negative requirement
\* values.
C3_OverallIsIntegerInRange ==
    /\ MatchScoreCallDone => (response.status = "ok" /\ response.value \in 0..100)
    /\ MatchScoreRouteDone => response.value.overall \in 0..100

\* The experience total in days of a list whose entries all have an end
\* (an end date, or the current flag).
RECURSIVE DatedDays(_, _)
DatedDays(experience, today) ==
    IF experience = <<>> THEN 0
    ELSE LET e == Head(experience)
             last == IF e.isCurrent THEN today ELSE Get(e.endDate)
         IN  Max(0, last - e.startDate) + DatedDays(Tail(experience), today)

AllDated(experience) ==
    \A i \in 1..Len(experience) : experience[i].isCurrent \/ IsSome(experience[i].endDate)

\* The experience term as the claim words it, for a total of totalDays /
\* 365 years.
ClaimedExperienceTerm(totalDays, minYears) ==
    IF totalDays >= DaysPerYear * minYears THEN Frac(25, 1)
    ELSE Frac(totalDays * 25, DaysPerYear * minYears)

StatesMinYears == IsSome(request.opportunity.requirements.experience.minYears)
                  /\ Get(request.opportunity.requirements.experience.minYears) > 0

\* The general rule of C10: full 25 points at or above minYears, otherwise
\* (totalYears / minYears) * 25 (not a number when totalYears is not).
ExperienceRule ==
    (MatchScoreCallDone /\ StatesMinYears) =>
        LET experience == request.employee.experience
            minYears == Get(request.opportunity.requirements.experience.minYears)
        IN  IF AllDated(experience)
            THEN /\ IsSome(response.terms.experience)
                 /\ FracEq(Get(response.terms.experience),
                           ClaimedExperienceTerm(DatedDays(experience, now), minYears))
            ELSE ~IsSome(response.terms.experience)

\* The scenario: one entry from 2019-01-01 to 2022-01-01 against minYears = 5.
ExperienceScenario ==
    /\ MatchScoreCallDone
    /\ request.employee.experience =
          <<[startDate |-> DaysFromCivil(2019, 1, 1),
             endDate |-> Some(DaysFromCivil(2022, 1, 1)), isCurrent |-> FALSE]>>
    /\ request.opportunity.requirements.experience.minYears = Some(5)
    /\ request.opportunity.requirements.skills = <<>>

\* C10 as stated: when the opportunity states a minimum number of years the
\* experience term is 25 at or above it and otherwise (totalYears /
\* minYears) * 25, and the scenario yields (3/5) * 25.
C10_ScenarioGivesThreeFifths ==
    /\ ExperienceRule
    /\ ExperienceScenario => FracEq(Get(response.terms.experience), Frac(3 * 25, 5))

\* C10 amended: the same rule, with totalYears the sum over the entries of
\* max(0, days) / 365; the scenario spans 1096 days (2020 is a leap year)
\* and yields ((1096/365) / 5) * 25, a little over (3/5) * 25 and below the
\* full 25.
C10_ScenarioGives1096Days ==
    /\ ExperienceRule
    /\ ExperienceScenario =>
           /\ FracEq(Get(response.terms.experience), Frac(1096 * 25, 365 * 5))
           /\ FracLt(Frac(3 * 25, 5), Get(response.terms.experience))
           /\ FracLt(Get(response.terms.experience), Frac(25, 1))

\* The scenario has been scored, and so has a list at or above minYears.
C10_Witness ==
    /\ ExperienceScenario
    /\ response.terms.experience = Some(Frac(1096 * 25, 365 * 5))
    /\ response.value = 15

\* C13: no scoring function throws when a sub-field of the employee,
\* opportunity or organization record is missing; here calculateMatchScore
\* for an employee whose location has no city, state or country.
C13_NeverThrows == MatchScoreCallDone => response.status # "throw"

\* The preferred skills of the served match-score call and whether the
\* employee holds one of the same name.
PreferredSkills == request.organization.requirements.preferredSkills
HoldsPreferred(k) == HoldsName(request.employee.skills, PreferredSkills[k])

\* The zero-denominator cases of the skill matcher: a required level of
\* ordinal 0 is met by any held level (the division is not reached), and a
\* maxPossibleScore of 0 or an empty list gives 0.
SkillRatioGuards ==
    MatchScoreRouteDone =>
        /\ response.value.skills \in 0..100
        /\ response.value.interests \in 0..100
        /\ (/\ Len(PreferredSkills) > 0
            /\ \A k \in 1..Len(PreferredSkills) :
                   HoldsPreferred(k) /\ SkillLevelScore(PreferredSkills[k].level) = 0)
           => response.value.skills = 100
        /\ (\A k \in 1..Len(PreferredSkills) :
                ~HoldsPreferred(k) /\ ~PreferredSkills[k].isRequired)
           => response.value.skills = 0

\* The zero-denominator cases of calculateMatchScore: no required skills
\* and a minYears of 0 (or none) contribute 0 and divide nothing.
MatchScoreRatioGuards ==
    (MatchScoreCallDone /\ response.status # "throw") =>
        /\ response.terms.skills[2] > 0
        /\ request.opportunity.requirements.skills = <<>>
           => FracEq(response.terms.skills, Frac(0, 1))
        /\ ~StatesMinYears => response.terms.experience = Some(Frac(0, 1))
        /\ IsSome(response.terms.experience) => Get(response.terms.experience)[2] > 0

KeyBefore(ka, kb) ==
    \E i \in 1..Len(ka) : ka[i] > kb[i] /\ \A j \in 1..(i - 1) : ka[j] = kb[j]

\* The elements that a stable sort places ahead of element i: those that
\* sort before it, and those that compare equal to it and came earlier.
Ahead(pairs, i) ==
    {j \in 1..Len(pairs) :
        \/ KeyBefore(pairs[j][1], pairs[i][1])
        \/ ~KeyBefore(pairs[i][1], pairs[j][1]) /\ j < i}

\* A sort that leaves the array as it is.
SortByKeyNoOp(pairs) == [i \in 1..Len(pairs) |-> pairs[i][2]]

\* The sorted items.
SortByKey(pairs) ==
    LET rank == [i \in 1..Len(pairs) |-> Cardinality(Ahead(pairs, i)) + 1]
    IN  [p \in 1..Len(pairs) |-> pairs[CHOOSE i \in 1..Len(pairs) : rank[i] = p][2]]

\* Array.prototype.slice(0, n)
SliceTo(array, n) == SubSeq(array, 1, Min(n, Len(array)))

\* Query.skip(skip).limit(limit)
SkipLimit(array, skip, limit) == SubSeq(array, skip + 1, Min(skip + limit, Len(array)))

Range(f) == {f[i] : i \in DOMAIN f}

\* Model.findById
FindById(collection, id) ==
    IF \E i \in 1..Len(collection) : collection[i]._id = id
    THEN Some(collection[CHOOSE i \in 1..Len(collection) : collection[i]._id = id])
    ELSE None

(***************************************************************************)
(* MatchingService.getRecommendedOpportunities / getRecommendedEmployees / *)
(* searchOpportunities (part_000).                                         *)
(***************************************************************************)
RelevanceCutoff == 30

\* A cutoff test that lets every entry through.
IsRelevantAlways(overallScore) == TRUE

\* if (overallScore > 30)
IsRelevant(overallScore) == FracLt(Frac(RelevanceCutoff, 1), overallScore)

\* The unrounded scores of an opportunity for an employee (part_000:133-150).
OpportunityScores(employee, opportunity) ==
    LET org == Get(opportunity.organization)
        skillScore == calculateSkillMatch(Some(employee.skills),
                                          Some(opportunity.requirements.skills))
        interestScore == calculateInterestMatch(Some(employee.interests),
                                                Some(org.requirements.preferredInterests))
        locationScore == calculateLocationMatch(Some(employee.location), Some(org.location),
                                                opportunity.location.type)
    IN  [skill |-> skillScore, interest |-> interestScore, location |-> locationScore,
         overall |-> WeightedOverall(skillScore, interestScore, locationScore)]

\* The unrounded scores of an employee for an organization (part_000:190-207).
EmployeeScores(employee, organization) ==
    LET skillScore == calculateSkillMatch(Some(employee.skills),
                                          Some(organization.requirements.preferredSkills))
        interestScore == calculateInterestMatch(Some(employee.interests),
                                                Some(organization.requirements.preferredInterests))
        locationScore == calculateLocationMatch(Some(employee.location),
                                                Some(organization.location), Some("hybrid"))
    IN  [skill |-> skillScore, interest |-> interestScore, location |-> locationScore,
         overall |-> WeightedOverall(skillScore, interestScore, locationScore)]

\* Opportunity.find({status: 'active', visibility: 'public'}), in natural order
ActivePublic(collection) ==
    SelectSeq(collection, LAMBDA o : o.status = "active" /\ o.visibility = "public")

\* One pass of the loop body over a scored member (part_000:152-164): whether
\* the unrounded overall passes the cutoff, and the scores as they are pushed.
LoopEntry(sc) ==
    [relevant |-> IsRelevant(sc.overall),
     scores |-> RoundedScores(sc.skill, sc.interest, sc.location)]

\* recommendations.sort((a, b) => b.scores.overall - a.scores.overall)
SortByOverall(recommendations) ==
    SortByKey([i \in 1..Len(recommendations) |->
                  <<<<recommendations[i].scores.overall>>, recommendations[i]>>])

\* The entries the loop has pushed, in the order of the pool.
Pushed(entries) ==
    LET kept == SelectSeq(entries, LAMBDA e : e.relevant)
    IN  [i \in 1..Len(kept) |-> [x \in DOMAIN kept[i] \ {"relevant"} |-> kept[i][x]]]

\* The recommendations of an employee: the loop, the sort and the slice.
\* An entry refers to its opportunity by _id.
OpportunityEntries(employee, pool) ==
    [i \in 1..Len(pool) |->
        [opportunity |-> pool[i]._id] @@ LoopEntry(OpportunityScores(employee, pool[i]))]

getRecommendedOpportunities(employee, collection, limit) ==
    SliceTo(SortByOverall(Pushed(OpportunityEntries(employee,
                SelectSeq(ActivePublic(collection), LAMBDA o : IsSome(o.organization))))),
            limit)

\* The recommendations of an organization.
EmployeeEntries(organization, pool) ==
    [i \in 1..Len(pool) |->
        [employee |-> pool[i]._id] @@ LoopEntry(EmployeeScores(pool[i], organization))]

getRecommendedEmployees(organization, collection, limit) ==
    SliceTo(SortByOverall(Pushed(EmployeeEntries(organization,
                SelectSeq(collection, LAMBDA e : e.isActive)))),
            limit)

\* The limit searchOpportunities passes to getRecommendedOpportunities.
SearchRecommendationLimit == 50

ZeroScores == [overall |-> 0, skills |-> 0, interests |-> 0, location |-> 0]

\* recommendations.find(rec => rec.opportunity._id === opportunity._id), with
\* the default scores when there is none (part_000:345-354).
SearchResult(recommendations, opportunity) ==
    LET hits == SelectSeq(recommendations, LAMBDA rec : rec.opportunity = opportunity._id)
    IN  <<opportunity.createdAt,
          IF hits # <<>> THEN Head(hits)
          ELSE [opportunity |-> opportunity._id, scores |-> ZeroScores]>>

\* The sort by overall, then by createdAt, both descending (part_000:357-366).
SortSearchResults(searchResults) ==
    SortByKey([i \in 1..Len(searchResults) |->
                  <<<<searchResults[i][2].scores.overall, searchResults[i][1]>>,
                    searchResults[i][2]>>])

SearchResults(recommendations, found) ==
    [i \in 1..Len(found) |-> SearchResult(recommendations, found[i])]

\* searchCriteria has optional type, category and location.
searchOpportunities(employee, collection, searchCriteria) ==
    SortSearchResults(SearchResults(
        getRecommendedOpportunities(employee, collection, SearchRecommendationLimit),
        SelectSeq(ActivePublic(collection), LAMBDA o :
            /\ IsSome(searchCriteria.type) => o.type = Get(searchCriteria.type)
            /\ IsSome(searchCriteria.category) => o.category = Get(searchCriteria.category)
            /\ IsSome(searchCriteria.location) => o.location.type = searchCriteria.location)))

(***************************************************************************)
(* The two matching routes (routes/matching.js:16-192).                    *)
(***************************************************************************)
\* The orders in which a query sorted by {createdAt: -1} can return docs:
\* newest first, documents of equal createdAt in any order.
CreatedAtDescOrders(docs) ==
    {p \in [1..Len(docs) -> 1..Len(docs)] :
        /\ \A i, j \in 1..Len(docs) : i # j => p[i] # p[j]
        /\ \A i, j \in 1..Len(docs) : i < j => docs[p[i]].createdAt >= docs[p[j]].createdAt}

\* A query that leaves withdrawn applications out.
AppliedEmployeeIdsNotWithdrawn(apps, opportunity) ==
    {a.employee : a \in {b \in apps : /\ b.opportunity = opportunity._id /\ b.isActive
                                      /\ b.status # "withdrawn"}}

\* Application.find({opportunity, isActive: true}).distinct('employee')
AppliedEmployeeIds(apps, opportunity) ==
    {a.employee : a \in {b \in apps : b.opportunity = opportunity._id /\ b.isActive}}

\* Application.find({employee, isActive: true}).distinct('opportunity')
AppliedOpportunityIds(apps, employee) ==
    {a.opportunity : a \in {b \in apps : b.employee = employee._id /\ b.isActive}}

\* matchCriteria of the candidates route (matching.js:50-59); the city
\* filter is the case-insensitive regular expression of the opportunity's
\* city, which a plain name matches as a substring.
CandidateCriteria(apps, opportunity, employee) ==
    /\ employee.isActive
    /\ employee.isProfileComplete
    /\ employee._id \notin AppliedEmployeeIds(apps, opportunity)
    /\ (/\ opportunity.location.type = Some("on-site")
        /\ IsSome(opportunity.location.city) /\ Get(opportunity.location.city) # <<>>)
       => (/\ IsSome(employee.location.city)
           /\ includes(toLowerCase(Get(employee.location.city)),
                       toLowerCase(Get(opportunity.location.city))))

\* matchCriteria of the opportunities route (matching.js:133-144)
OpportunityCriteria(apps, employee, opportunity, today) ==
    /\ opportunity.status = "active"
    /\ opportunity.isActive
    /\ opportunity.visibility = "public"
    /\ IsSome(opportunity.application.deadline)
    /\ Get(opportunity.application.deadline) > today
    /\ opportunity._id \notin AppliedOpportunityIds(apps, employee)
    /\ Len(employee.preferences.workMode) > 0
       => \E i \in 1..Len(employee.preferences.workMode) :
              opportunity.location.type = Some(employee.preferences.workMode[i])

\* The tail of both routes (matching.js:68-97, 153-182): score every item
\* of the page, filter by minMatchScore, sort by score.  An item is
\* <<_id, score>>, score being the result of calculateMatchScore; a score
\* that is not a number fails the comparison with minMatchScore.
ScoredPage(scored, minMatchScore, total) ==
    IF \E i \in 1..Len(scored) : scored[i][2].status = "throw"
    THEN [status |-> "error", code |-> 500]
    ELSE LET kept == SelectSeq(scored, LAMBDA item :
                         item[2].status = "ok" /\ item[2].value >= minMatchScore)
             items == [i \in 1..Len(kept) |->
                          [id |-> kept[i][1], matchScore |-> kept[i][2].value]]
         IN  [status |-> "ok",
              items |-> SortByKey([i \in 1..Len(items) |-> <<<<items[i].matchScore>>, items[i]>>]),
              total |-> total]

(***************************************************************************)
(* Specification of the recommendation and matching pipelines over a       *)
(* store.                                                                  *)
(***************************************************************************)
MaxOpportunities == 2
MaxEmployees == 2
MaxTime == 2
MaxLimit == 2
MaxPage == 2
MinMatchScores == {0, 55}

OrgAustin ==
    Organization(1, Technology, AustinTXUSLocation,
        <<[name |-> python, level |-> Some("intermediate"), isRequired |-> TRUE]>>,
        <<[name |-> Coding, category |-> Some("technology"), importance |-> Some("critical")]>>)
OrgIndia ==
    Organization(2, Finance, DallasCAINLocation,
        <<[name |-> SQL, level |-> Some("advanced"), isRequired |-> FALSE]>>,
        <<[name |-> Coding, category |-> Some("technology"), importance |-> None]>>)
OrganizationCollection == {OrgAustin, OrgIndia}

Deadline == Today + 30

OpportunityTemplates == 1..3
OpportunityTemplate(t, id, createdAt) ==
    CASE t = 1 -> Opportunity(id, Some(OrgIndia),
                      <<[name |-> python, level |-> Some("advanced"), required |-> TRUE]>>,
                      Some(5), <<[level |-> Some(Bachelor)]>>, HybridIn(DallasCAINLocation),
                      "job", Some(Deadline), createdAt)
      [] t = 2 -> Opportunity(id, Some(OrgAustin),
                      <<[name |-> python, level |-> Some("intermediate"), required |-> FALSE]>>,
                      None, <<>>, RemoteLocation, "internship", Some(Deadline), createdAt)
      [] t = 3 -> Opportunity(id, Some(OrgIndia), <<>>, Some(0), <<>>,
                      OnSiteIn(DallasCAINLocation), "job", Some(Deadline), createdAt)

EmployeeTemplates == 1..2
EmployeeTemplate(t, id, createdAt) ==
    CASE t = 1 -> Employee(id, <<[name |-> Python, level |-> Some("beginner")]>>,
                      <<[name |-> CodingCap, category |-> Some("technology"),
                         level |-> Some("casual")]>>,
                      AustinTXUSLocation,
                      <<[startDate |-> DaysFromCivil(2019, 1, 1),
                         endDate |-> Some(DaysFromCivil(2022, 1, 1)), isCurrent |-> FALSE]>>,
                      <<[degree |-> BachelorCap]>>, <<>>, <<Technology>>, createdAt)
      [] t = 2 -> Employee(id, <<[name |-> Python, level |-> Some("expert")],
                                 [name |-> SQL, level |-> Some("advanced")]>>,
                      <<[name |-> Chess, category |-> Some("gaming"),
                         level |-> Some("professional")]>>,
                      DallasCAINLocation,
                      <<[startDate |-> DaysFromCivil(2019, 1, 1), endDate |-> None,
                         isCurrent |-> TRUE]>>,
                      <<[degree |-> Master]>>, <<"remote">>, <<>>, createdAt)

NoRequest == [fn |-> "none"]

Init ==
    /\ \E n \in 0..MaxEmployees :
          \E t \in [1..n -> EmployeeTemplates], c \in [1..n -> 1..MaxTime] :
              employees = [i \in 1..n |-> EmployeeTemplate(t[i], i, c[i])]
    /\ \E n \in 0..MaxOpportunities :
          \E t \in [1..n -> OpportunityTemplates], c \in [1..n -> 1..MaxTime] :
              opportunities = [i \in 1..n |-> OpportunityTemplate(t[i], i, c[i])]
    /\ applications = {}
    /\ handlers = NoHandlers
    /\ now = Today
    /\ request = NoRequest
    /\ response = Pending

\* GET /api/recommendations/opportunities without filters
\* (recommendations.js:39, part_000:116-174)
RecommendOpportunities ==
    \E employeeId \in 0..Len(employees), limit \in 1..MaxLimit :
        /\ request = NoRequest
        /\ request' = [fn |-> "getRecommendedOpportunities", employeeId |-> employeeId,
                       limit |-> limit]
        /\ LET employee == FindById(employees, employeeId)
           IN  response' = IF ~IsSome(employee) THEN [status |-> "error", code |-> 500]
                           ELSE [status |-> "ok",
                                 items |-> getRecommendedOpportunities(Get(employee),
                                                                       opportunities, limit)]
        /\ UNCHANGED <<employees, opportunities, applications, handlers, now>>

\* GET /api/recommendations/employees without filters
\* (recommendations.js:83, part_000:179-231)
RecommendEmployees ==
    \E organization \in OrganizationCollection, limit \in 1..MaxLimit :
        /\ request = NoRequest
        /\ request' = [fn |-> "getRecommendedEmployees", organizationId |-> organization._id,
                       limit |-> limit]
        /\ response' = [status |-> "ok",
                        items |-> getRecommendedEmployees(organization, employees, limit)]
        /\ UNCHANGED <<employees, opportunities, applications, handlers, now>>

\* MatchingService.searchOpportunities (part_000:322-367)
SearchOpportunities ==
    \E employeeId \in 1..Len(employees), type \in {None, Some("job")},
       location \in {None, Some("remote")} :
        /\ request = NoRequest
        /\ request' = [fn |-> "searchOpportunities", employeeId |-> employeeId,
                       searchCriteria |-> [type |-> type, category |-> None,
                                           location |-> location]]
        /\ response' = [status |-> "ok",
                        items |-> searchOpportunities(Get(FindById(employees, employeeId)),
                                                      opportunities, request'.searchCriteria)]
        /\ UNCHANGED <<employees, opportunities, applications, handlers, now>>

\* GET /api/matching/opportunities/:opportunityId/candidates (matching.js:16-107)
MatchingCandidates ==
    \E opportunityId \in 1..Len(opportunities), page \in 1..MaxPage, limit \in 1..MaxLimit,
       minMatchScore \in MinMatchScores :
        LET opportunity == Get(FindById(opportunities, opportunityId))
            matched == SelectSeq(employees, LAMBDA e :
                           CandidateCriteria(applications, opportunity, e))
        IN  /\ request = NoRequest
            /\ opportunity.isActive
            /\ request' = [fn |-> "matchingCandidates", opportunityId |-> opportunityId,
                           page |-> page, limit |-> limit, minMatchScore |-> minMatchScore]
            /\ \E order \in CreatedAtDescOrders(matched) :
                   LET candidates == SkipLimit([i \in 1..Len(matched) |-> matched[order[i]]],
                                               (page - 1) * limit, limit)
                       scored == [i \in 1..Len(candidates) |->
                                     <<candidates[i]._id,
                                       calculateMatchScore(opportunity, candidates[i], now)>>]
                   IN  response' = ScoredPage(scored, minMatchScore, Len(matched))
            /\ UNCHANGED <<employees, opportunities, applications, handlers, now>>

\* GET /api/matching/employees/:employeeId/opportunities (matching.js:112-192)
MatchingOpportunities ==
    \E employeeId \in 1..Len(employees), page \in 1..MaxPage, limit \in 1..MaxLimit,
       minMatchScore \in MinMatchScores :
        LET employee == Get(FindById(employees, employeeId))
            matched == SelectSeq(opportunities, LAMBDA o :
                           OpportunityCriteria(applications, employee, o, now))
        IN  /\ request = NoRequest
            /\ request' = [fn |-> "matchingOpportunities", employeeId |-> employeeId,
                           page |-> page, limit |-> limit, minMatchScore |-> minMatchScore]
            /\ \E order \in CreatedAtDescOrders(matched) :
                   LET page1 == SkipLimit([i \in 1..Len(matched) |-> matched[order[i]]],
                                          (page - 1) * limit, limit)
                       scored == [i \in 1..Len(page1) |->
                                     <<page1[i]._id,
                                       calculateMatchScore(page1[i], employee, now)>>]
                   IN  response' = ScoredPage(scored, minMatchScore, Len(matched))
            /\ UNCHANGED <<employees, opportunities, applications, handlers, now>>

\* res.json(...): the response is sent and the server awaits the next call.
Reply ==
    /\ request # NoRequest
    /\ request' = NoRequest
    /\ response' = Pending
    /\ UNCHANGED <<employees, opportunities, applications, handlers, now>>

Next ==
    \/ RecommendOpportunities
    \/ RecommendEmployees
    \/ SearchOpportunities
    \/ MatchingCandidates
    \/ MatchingOpportunities
    \/ Reply

Spec == Init /\ [][Next]_vars

(***************************************************************************)
(* Properties of the pipelines.                                            *)
(***************************************************************************)
ListDone(fns) == request.fn \in fns /\ response.status = "ok"

ProfileLists == {"getRecommendedOpportunities", "getRecommendedEmployees"}
RequirementLists == {"matchingCandidates", "matchingOpportunities"}

\* The overall score an entry reports.
ReportedOverall(item) ==
    IF request.fn \in RequirementLists THEN item.matchScore ELSE item.scores.overall

\* The creation timestamp of the document an entry is about.
EntryCreatedAt(item) ==
    CASE request.fn \in {"getRecommendedOpportunities", "searchOpportunities"} ->
             Get(FindById(opportunities, item.opportunity)).createdAt
      [] request.fn = "getRecommendedEmployees" ->
             Get(FindById(employees, item.employee)).createdAt
      [] request.fn = "matchingCandidates" -> Get(FindById(employees, item.id)).createdAt
      [] request.fn = "matchingOpportunities" -> Get(FindById(opportunities, item.id)).createdAt

\* The unrounded overall of a profile-weighted entry, from the records.
UnroundedOverall(item) ==
    IF request.fn = "getRecommendedEmployees"
    THEN EmployeeScores(Get(FindById(employees, item.employee)),
                        CHOOSE o \in OrganizationCollection : o._id = request.organizationId).overall
    ELSE OpportunityScores(Get(FindById(employees, request.employeeId)),
                           Get(FindById(opportunities, item.opportunity))).overall

C2_SortedByOverall ==
    ListDone(ProfileLists \cup RequirementLists) =>
        \A i \in 1..(Len(response.items) - 1) :
            ReportedOverall(response.items[i]) >= ReportedOverall(response.items[i + 1])

\* A list of two recommendations has been returned whose higher-scoring
\* entry is stored after the lower-scoring one.
C2_Witness ==
    /\ ListDone({"getRecommendedOpportunities"})
    /\ Len(response.items) = 2
    /\ response.items[1].scores.overall > response.items[2].scores.overall
    /\ response.items[1].opportunity > response.items[2].opportunity

\* C4: in every returned recommendation list, of two entries with equal
\* overall score the one created later comes first.
C4_TiesNewerFirst ==
    ListDone(ProfileLists \cup RequirementLists \cup {"searchOpportunities"}) =>
        \A i, j \in 1..Len(response.items) :
            (i < j /\ ReportedOverall(response.items[i]) = ReportedOverall(response.items[j]))
            => EntryCreatedAt(response.items[i]) >= EntryCreatedAt(response.items[j])

\* The members of the whole pool that the route's criteria admit and whose
\* score reaches minMatchScore, as <<_id, score>>.
EligiblePool ==
    IF request.fn = "matchingCandidates"
    THEN LET opportunity == Get(FindById(opportunities, request.opportunityId))
         IN  {<<e._id, calculateMatchScore(opportunity, e, now).value>> :
                 e \in {x \in Range(employees) :
                     /\ CandidateCriteria(applications, opportunity, x)
                     /\ calculateMatchScore(opportunity, x, now).status = "ok"
                     /\ calculateMatchScore(opportunity, x, now).value >= request.minMatchScore}}
    ELSE LET employee == Get(FindById(employees, request.employeeId))
         IN  {<<o._id, calculateMatchScore(o, employee, now).value>> :
                 o \in {x \in Range(opportunities) :
                     /\ OpportunityCriteria(applications, employee, x, now)
                     /\ calculateMatchScore(x, employee, now).status = "ok"
                     /\ calculateMatchScore(x, employee, now).value >= request.minMatchScore}}

\* C5: the first page of a requirement-weighted route consists of the
\* `limit` highest-scoring eligible members of the whole pool: it holds
\* min(limit, number of eligible members) entries, and no eligible member
\* left off the page has a strictly higher overall than a member on it.
C5_FirstPageHoldsTheBest ==
    (ListDone(RequirementLists) /\ request.page = 1) =>
        LET onPage == {response.items[i].id : i \in 1..Len(response.items)}
        IN  /\ Len(response.items) = Min(request.limit, Cardinality(EligiblePool))
            /\ \A m \in EligiblePool :
                   m[1] \notin onPage =>
                       \A i \in 1..Len(response.items) : m[2] <= response.items[i].matchScore

(***************************************************************************)
(* GET /api/matching/analytics (matching.js:197-276) and its two helpers   *)
(* calculateAverageMatchScore / calculateAverageMatchScoreForEmployee      *)
(* (matching.js:414-457).                                                  *)
(***************************************************************************)
\* An Application document; organization is the organization of the
\* opportunity applied to.
Application(id, opportunity, employee, organization, isActive) ==
    [_id |-> id, opportunity |-> opportunity, employee |-> employee,
     organization |-> organization, isActive |-> isActive, status |-> "submitted",
     withdrawnAt |-> None]

\* totalScore and count after the loop over a set of <<opportunity,
\* employee>> documents given by application: <<totalScore, count>>,
\* totalScore being None once a score that is not a number has been added.
RECURSIVE ScoreTotals(_, _)
ScoreTotals(pairs, today) ==
    IF pairs = {} THEN <<Some(0), 0>>
    ELSE LET pair == CHOOSE x \in pairs : TRUE
             rest == ScoreTotals(pairs \ {pair}, today)
             score == calculateMatchScore(pair.opportunity, pair.employee, today)
         IN  <<IF IsSome(rest[1]) /\ score.status = "ok"
               THEN Some(Get(rest[1]) + score.value) ELSE None,
               rest[2] + 1>>

\* An average that divides without looking at count.
AverageUnguarded(totals) ==
    IF IsSome(totals[1]) /\ totals[2] > 0
    THEN Ok(MathRound(Frac(Get(totals[1]), totals[2])))
    ELSE [status |-> "NaN"]

\* An average that drops the fraction instead of rounding.
AverageTruncated(totals) ==
    IF totals[2] > 0
    THEN IF IsSome(totals[1]) THEN Ok(Get(totals[1]) \div totals[2])
         ELSE [status |-> "NaN"]
    ELSE Ok(0)

\* count > 0 ? Math.round(totalScore / count) : 0
Average(totals) ==
    IF totals[2] > 0
    THEN IF IsSome(totals[1]) THEN Ok(MathRound(Frac(Get(totals[1]), totals[2])))
         ELSE [status |-> "NaN"]
    ELSE Ok(0)

\* The pairs the organization helper scores: the active applications to
\* the organization's active opportunities, with the employee populated.
OrganizationPairs(organizationId, opps, emps, apps) ==
    {[application |-> a._id,
      opportunity |-> Get(FindById(opps, a.opportunity)),
      employee |-> Get(FindById(emps, a.employee))] :
        a \in {b \in apps :
                  /\ b.isActive
                  /\ \E i \in 1..Len(opps) :
                         /\ opps[i]._id = b.opportunity
                         /\ opps[i].isActive
                         /\ IsSome(opps[i].organization)
                         /\ Get(opps[i].organization)._id = organizationId}}

\* The pairs the employee helper scores: the employee's active
\* applications, with the opportunity populated.
EmployeePairs(employeeId, opps, emps, apps) ==
    {[application |-> a._id,
      opportunity |-> Get(FindById(opps, a.opportunity)),
      employee |-> Get(FindById(emps, employeeId))] :
        a \in {b \in apps : b.employee = employeeId /\ b.isActive}}

calculateAverageMatchScore(organizationId, opps, emps, apps, today) ==
    Average(ScoreTotals(OrganizationPairs(organizationId, opps, emps, apps), today))

calculateAverageMatchScoreForEmployee(employeeId, opps, emps, apps, today) ==
    Average(ScoreTotals(EmployeePairs(employeeId, opps, emps, apps), today))

(***************************************************************************)
(* Specification of the analytics route over a fixed store of employees    *)
(* and opportunities and every small collection of applications.           *)
(***************************************************************************)
MaxApplications == 2

\* An employee whose only experience entry has ended without an end date.
EmployeeUndated(id) ==
    Employee(id, <<[name |-> Python, level |-> Some("expert")]>>, <<>>, AustinTXUSLocation,
             <<[startDate |-> DaysFromCivil(2019, 1, 1), endDate |-> None,
                isCurrent |-> FALSE]>>,
             <<>>, <<>>, <<>>, 1)

AnalyticsEmployees == <<EmployeeTemplate(1, 1, 1), EmployeeTemplate(2, 2, 1), EmployeeUndated(3)>>

\* Opportunity 3 has been closed (matching.js:749 sets isActive to false).
AnalyticsOpportunities ==
    <<OpportunityTemplate(1, 1, 1), OpportunityTemplate(2, 2, 1),
      [OpportunityTemplate(2, 3, 1) EXCEPT !.isActive = FALSE]>>

AnalyticsInit ==
    /\ employees = AnalyticsEmployees
    /\ opportunities = AnalyticsOpportunities
    /\ \E n \in 0..MaxApplications :
          \E o \in [1..n -> 1..Len(AnalyticsOpportunities)],
             e \in [1..n -> 1..Len(AnalyticsEmployees)], active \in [1..n -> BOOLEAN] :
              applications =
                  {Application(i, o[i], e[i],
                               Get(AnalyticsOpportunities[o[i]].organization)._id, active[i]) :
                      i \in 1..n}
    /\ handlers = NoHandlers
    /\ now = Today
    /\ request = NoRequest
    /\ response = Pending

\* The response for an average: a number, or not a number.
AnalyticsResponse(analytics, averageMatchScore) ==
    [status |-> IF averageMatchScore.status = "ok" THEN "ok" ELSE "NaN",
     analytics |-> IF averageMatchScore.status = "ok"
                   THEN analytics @@ [averageMatchScore |-> averageMatchScore.value]
                   ELSE analytics]

\* req.user.role === 'organization' (matching.js:201-229)
AnalyticsOrganization ==
    \E organization \in OrganizationCollection :
        /\ request = NoRequest
        /\ request' = [fn |-> "analyticsOrganization", organizationId |-> organization._id]
        /\ LET totalOpportunities ==
                   Cardinality({i \in 1..Len(opportunities) :
                       /\ opportunities[i].isActive
                       /\ IsSome(opportunities[i].organization)
                       /\ Get(opportunities[i].organization)._id = organization._id})
               totalApplications ==
                   Cardinality({a \in applications :
                       a.organization = organization._id /\ a.isActive})
           IN  response' = AnalyticsResponse(
                   [totalOpportunities |-> totalOpportunities,
                    totalApplications |-> totalApplications,
                    matchRate |-> IF totalOpportunities > 0
                                  THEN Frac(totalApplications * 100, totalOpportunities)
                                  ELSE Frac(0, 1)],
                   calculateAverageMatchScore(organization._id, opportunities, employees,
                                              applications, now))
        /\ UNCHANGED <<employees, opportunities, applications, handlers, now>>

\* req.user.role === 'employee' (matching.js:231-260)
AnalyticsEmployee ==
    \E employeeId \in 1..Len(employees) :
        /\ request = NoRequest
        /\ request' = [fn |-> "analyticsEmployee", employeeId |-> employeeId]
        /\ LET totalApplications ==
                   Cardinality({a \in applications : a.employee = employeeId /\ a.isActive})
               acceptedApplications ==
                   Cardinality({a \in applications :
                       a.employee = employeeId /\ a.status = "accepted" /\ a.isActive})
           IN  response' = AnalyticsResponse(
                   [totalApplications |-> totalApplications,
                    acceptedApplications |-> acceptedApplications,
                    successRate |-> IF totalApplications > 0
                                    THEN Frac(acceptedApplications * 100, totalApplications)
                                    ELSE Frac(0, 1)],
                   calculateAverageMatchScoreForEmployee(employeeId, opportunities, employees,
                                                         applications, now))
        /\ UNCHANGED <<employees, opportunities, applications, handlers, now>>

AnalyticsNext == AnalyticsOrganization \/ AnalyticsEmployee

AnalyticsSpec == AnalyticsInit /\ [][AnalyticsNext]_vars

(***************************************************************************)
(* Properties of the analytics average.                                    *)
(***************************************************************************)
AnalyticsDone == request.fn \in {"analyticsOrganization", "analyticsEmployee"}

\* The pairs the served analytics call scores.
ScoredPairs ==
    IF request.fn = "analyticsOrganization"
    THEN OrganizationPairs(request.organizationId, opportunities, employees, applications)
    ELSE EmployeePairs(request.employeeId, opportunities, employees, applications)

\* The scores calculateMatchScore gives the pairs, by application.
PairScores ==
    [a \in {p.application : p \in ScoredPairs} |->
        LET p == CHOOSE q \in ScoredPairs : q.application = a
        IN  calculateMatchScore(p.opportunity, p.employee, now)]

RECURSIVE SumOf(_, _)
SumOf(f, S) ==
    IF S = {} THEN 0
    ELSE LET x == CHOOSE y \in S : TRUE IN f[x].value + SumOf(f, S \ {x})

\* C11: the analytics average match score is the number 0 (not NaN, not an
\* error) when the organization or employee has no active application to
\* score.
C11_NoApplicationsGivesZero ==
    (AnalyticsDone /\ ScoredPairs = {}) =>
        /\ response.status = "ok"
        /\ response.analytics.averageMatchScore = 0

\* An organization with applications on file, none of them active on one of
\* its active opportunities, has been served an average of 0.
C11_Witness ==
    /\ request.fn = "analyticsOrganization"
    /\ \E a \in applications : a.organization = request.organizationId
    /\ ScoredPairs = {}
    /\ response.status = "ok"
    /\ response.analytics.averageMatchScore = 0

\* C12 as stated: for a non-empty set of application pairs the analytics
\* average equals the arithmetic mean of the overall scores
\* calculateMatchScore gives the pairs.
C12_AverageIsTheMean ==
    (AnalyticsDone /\ ScoredPairs # {}) =>
        /\ \A a \in DOMAIN PairScores : PairScores[a].status = "ok"
        /\ response.status = "ok"
        /\ FracEq(Frac(response.analytics.averageMatchScore, 1),
                  Frac(SumOf(PairScores, DOMAIN PairScores), Cardinality(DOMAIN PairScores)))

\* C12 amended: for a non-empty set of application pairs whose scores are
\* all numbers the analytics average equals the arithmetic mean of those
\* scores rounded to the nearest integer (halves up); when the score of a
\* pair is not a number, the average is not a number either.
C12_AverageIsTheRoundedMean ==
    (AnalyticsDone /\ ScoredPairs # {}) =>
        IF \A a \in DOMAIN PairScores : PairScores[a].status = "ok"
        THEN /\ response.status = "ok"
             /\ LET sum == SumOf(PairScores, DOMAIN PairScores)
                    count == Cardinality(DOMAIN PairScores)
                    average == response.analytics.averageMatchScore
                IN  /\ 2 * count * average <= 2 * sum + count
                    /\ 2 * sum + count < 2 * count * (average + 1)
        ELSE response.status = "NaN"

\* An employee with applications scoring 65 and 50 has been served 58, the
\* mean 57.5 rounded.
C12_Witness ==
    /\ request.fn = "analyticsEmployee"
    /\ \A a \in DOMAIN PairScores : PairScores[a].status = "ok"
    /\ {PairScores[a].value : a \in DOMAIN PairScores} = {65, 50}
    /\ Cardinality(DOMAIN PairScores) = 2
    /\ response.status = "ok"
    /\ response.analytics.averageMatchScore = 58

(***************************************************************************)
(* Specification of getRecommendedOpportunities over the requirement lists *)
(* of one opportunity: which of its skills are marked mandatory.           *)
(***************************************************************************)
\* requirements.skills entries as the opportunity schema stores them: the
\* mandatory flag is called `required` (part_002:44-54).
OpportunitySkillRecords ==
    [name : RequiredSkillNames, level : {Some(l) : l \in RequiredSkillLevels},
     required : BOOLEAN]

\* An employee close to OrgAustin in interests and location, so that every
\* opportunity of OrgAustin passes the relevance cutoff.
EmployeeNearAustin(skills) ==
    Employee(1, skills,
             <<[name |-> Coding, category |-> Some("technology"),
                level |-> Some("professional")]>>,
             AustinTXUSLocation, <<>>, <<>>, <<>>, <<>>, 1)

RecommendSkillInit ==
    /\ \E skills \in SeqUpTo(EmployeeSkillRecords, 1) :
          employees = <<EmployeeNearAustin(skills)>>
    /\ \E skills \in SeqUpTo(OpportunitySkillRecords, MaxRequiredSkills) :
          opportunities = <<Opportunity(1, Some(OrgAustin), skills, None, <<>>,
                                        HybridIn(AustinTXUSLocation), "job",
                                        Some(Deadline), 1)>>
    /\ applications = {}
    /\ handlers = NoHandlers
    /\ now = Today
    /\ request = NoRequest
    /\ response = Pending

RecommendSkillNext == RecommendOpportunities

RecommendSkillSpec == RecommendSkillInit /\ [][RecommendSkillNext]_vars

\* The requirement list with the stored mandatory flag under the name the
\* skill matcher reads.
AsMatcherReads(skills) ==
    [k \in 1..Len(skills) |->
        [name |-> skills[k].name, level |-> skills[k].level,
         isRequired |-> skills[k].required]]

\* C16: in getRecommendedOpportunities the mandatory flag stored on an
\* opportunity's requirements.skills entries is the flag the skill matcher
\* reads: the reported skill score is the score with every mandatory skill
\* weighted 2 and every mandatory skill the employee lacks lowering it.
C16_StoredFlagIsRead ==
    (request.fn = "getRecommendedOpportunities" /\ response.status = "ok") =>
        \A i \in 1..Len(response.items) :
            LET opportunity == Get(FindById(opportunities, response.items[i].opportunity))
                employee == Get(FindById(employees, request.employeeId))
            IN  response.items[i].scores.skills =
                    MathRound(calculateSkillMatch(
                        Some(employee.skills),
                        Some(AsMatcherReads(opportunity.requirements.skills))))

(***************************************************************************)
(* Specification of the interest matcher as a function of its two          *)
(* arguments.                                                              *)
(***************************************************************************)
MaxEmployeeInterests == 2
MaxPreferredInterests == 2

EmployeeInterestRecords ==
    [name : {CodingCap, Chess}, category : {Some("technology")},
     level : {Some("casual"), Some("passionate"), Some("professional")}]
PreferredInterestRecords ==
    [name : {Coding, Chess}, category : {Some("technology"), Some("sports")},
     importance : {None, Some("important")}]

InterestInit ==
    /\ employees = <<>>
    /\ opportunities = <<>>
    /\ applications = {}
    /\ handlers = NoHandlers
    /\ now = 0
    /\ \E ei \in {None} \cup {Some(x) : x \in SeqUpTo(EmployeeInterestRecords,
                                                      MaxEmployeeInterests)},
          oi \in {None} \cup {Some(x) : x \in SeqUpTo(PreferredInterestRecords,
                                                      MaxPreferredInterests)} :
            request = [fn |-> "calculateInterestMatch", employeeInterests |-> ei,
                       orgInterests |-> oi]
    /\ response = Pending

CallInterestMatch ==
    /\ request.fn = "calculateInterestMatch"
    /\ response = Pending
    /\ response' = Ok(calculateInterestMatch(request.employeeInterests, request.orgInterests))
    /\ UNCHANGED <<employees, opportunities, applications, handlers, now, request>>

InterestNext == CallInterestMatch

InterestSpec == InterestInit /\ [][InterestNext]_vars

InterestCallDone == request.fn = "calculateInterestMatch" /\ response.status = "ok"

\* interest matches the preferred interest by name (case-insensitively) or
\* by category.
InterestMatches(interest, orgInterest) ==
    \/ toLowerCase(interest.name) = toLowerCase(orgInterest.name)
    \/ interest.category = orgInterest.category

\* <<total, max>> as the claim words them, over the preferred interests
\* k..Len(ois); the matched interest is the first one that matches.
RECURSIVE ClaimedInterestTotals(_, _, _)
ClaimedInterestTotals(eis, ois, k) ==
    IF k > Len(ois) THEN <<Frac(0, 1), Frac(0, 1)>>
    ELSE LET rest == ClaimedInterestTotals(eis, ois, k + 1)
             hits == {i \in 1..Len(eis) : InterestMatches(eis[i], ois[k])}
             importance == ImportanceScore(ois[k].importance)
         IN  IF hits = {} THEN <<rest[1], FracAdd(Frac(1, 4), rest[2])>>
             ELSE LET first == CHOOSE i \in hits : \A j \in hits : i <= j
                      level == InterestLevelScore(eis[first].level)
                  IN  <<FracAdd(Frac(level * importance, 4 * 4), rest[1]),
                        FracAdd(Frac(importance, 4), rest[2])>>

\* C17: calculateInterestMatch returns a value in [0,100] equal to 100 *
\* total / max, where a preferred interest matched by case-insensitive name
\* or by category adds (level/4) * (importance/4) to total and
\* importance/4 to max, and an unmatched one adds 0.25 to max only; it
\* returns 0 when the preferred list is empty or missing and when the
\* employee has no interests.
C17_InterestFormula ==
    InterestCallDone =>
        /\ FracLeq(Frac(0, 1), response.value) /\ FracLeq(response.value, Frac(100, 1))
        /\ (\/ ~IsSome(request.orgInterests)
            \/ ~IsSome(request.employeeInterests)
            \/ Len(Get(request.orgInterests)) = 0
            \/ Len(Get(request.employeeInterests)) = 0)
           => FracEq(response.value, Frac(0, 1))
        /\ (/\ IsSome(request.orgInterests) /\ IsSome(request.employeeInterests)
            /\ Len(Get(request.orgInterests)) > 0)
           => LET totals == ClaimedInterestTotals(Get(request.employeeInterests),
                                                  Get(request.orgInterests), 1)
              IN  FracEq(response.value,
                         Frac(100 * totals[1][1] * totals[2][2],
                              totals[1][2] * totals[2][1]))

\* A passionate interest matched by category against an important
\* preference, next to an unmatched preference, has been scored:
\* 100 * (3/4 * 3/4) / (3/4 + 1/4).
C17_Witness ==
    /\ InterestCallDone
    /\ request.employeeInterests =
          Some(<<[name |-> Chess, category |-> Some("technology"),
                  level |-> Some("passionate")]>>)
    /\ request.orgInterests =
          Some(<<[name |-> Coding, category |-> Some("technology"),
                  importance |-> Some("important")],
                 [name |-> Coding, category |-> Some("sports"), importance |-> None]>>)
    /\ FracEq(response.value, Frac(100 * 9, 16))

(***************************************************************************)
(* Properties of the education term.                                       *)
(***************************************************************************)
\* The rank of a level name in high-school < associate < bachelor < master
\* < phd, as a number 1..5; 0 for a text that names no level.
RankOf(level) ==
    IF \E r \in 1..Len(EducationLevels) : EducationLevels[r] = level
    THEN CHOOSE r \in 1..Len(EducationLevels) : EducationLevels[r] = level
    ELSE 0

RequiredEducation == request.opportunity.requirements.education
HeldEducation == request.employee.education
HeldRanks == {RankOf(toLowerCase(HeldEducation[i].degree)) : i \in 1..Len(HeldEducation)} \ {0}

\* The held rank: high-school, raised to the highest recognised rank.
HeldRank == CHOOSE r \in HeldRanks \cup {1} : \A q \in HeldRanks \cup {1} : q <= r

\* C18 as stated: the education term is the full 10 points exactly when the
\* rank of the employee's highest-held degree (the maximum rank over the
\* employee's education entries) is at or above the rank of the
\* opportunity's required education level, and 0 otherwise.
C18_EducationBinaryByRank ==
    (MatchScoreCallDone /\ response.status = "ok" /\ Len(RequiredEducation) > 0) =>
        /\ response.terms.education \in {0, 10}
        /\ response.terms.education = 10 <=>
              /\ RankOf(Get(RequiredEducation[1].level)) > 0
              /\ \E r \in HeldRanks : r >= RankOf(Get(RequiredEducation[1].level))

\* C18 amended: the education term is 10 or 0.  It is 10 exactly when the
\* opportunity lists an education requirement and the held rank is at or
\* above the rank of the FIRST listed requirement's level, where the held
\* rank is that of high-school raised to the highest rank among the entries
\* whose lower-cased degree text is exactly one of the five level names (an
\* employee with no such entry ranks as high-school), and a required level
\* outside the five names ('any') is met by every employee.
C18_EducationBinaryFromHighSchool ==
    (MatchScoreCallDone /\ response.status = "ok") =>
        /\ response.terms.education \in {0, 10}
        /\ response.terms.education = 10 <=>
              /\ Len(RequiredEducation) > 0
              /\ HeldRank >= RankOf(Get(RequiredEducation[1].level))

\* An employee holding a master's and an associate degree has been scored
\* against a bachelor requirement listed before a phd requirement.
C18_Witness ==
    /\ MatchScoreCallDone /\ response.status = "ok"
    /\ RequiredEducation = <<[level |-> Some(Bachelor)], [level |-> Some(PhD)]>>
    /\ HeldEducation = <<[degree |-> Associate], [degree |-> Master]>>
    /\ response.terms.education = 10

(***************************************************************************)
(* GET /api/recommendations/employees (routes/recommendations.js:70-145)   *)
(* with its experienceLevel filter.  The skills and interests query        *)
(* parameters are not supplied.                                            *)
(***************************************************************************)
ExperienceLevels == {"entry-level", "mid-level", "senior", "executive"}

\* employee.experience?.reduce(...) || 0, in days: the entries are summed as
\* they are, and a NaN total becomes 0.
RECURSIVE FilterExperienceDays(_, _, _)
FilterExperienceDays(total, experience, today) ==
    IF experience = <<>> THEN (IF IsSome(total) THEN Get(total) ELSE 0)
    ELSE LET days == ExperienceDaysNoFloor(Head(experience), today)
         IN  FilterExperienceDays(
                 IF IsSome(total) /\ IsSome(days) THEN Some(Get(total) + Get(days)) ELSE None,
                 Tail(experience), today)

\* The switch on experienceLevel, over a total in days.
InExperienceLevel(experienceLevel, days) ==
    CASE experienceLevel = "entry-level" -> days < 2 * DaysPerYear
      [] experienceLevel = "mid-level" -> days >= 2 * DaysPerYear /\ days < 5 * DaysPerYear
      [] experienceLevel = "senior" -> days >= 5 * DaysPerYear /\ days < 10 * DaysPerYear
      [] experienceLevel = "executive" -> days >= 10 * DaysPerYear
      [] OTHER -> TRUE

FilterByExperienceLevel(recommendations, experienceLevel, collection, today) ==
    IF IsSome(experienceLevel)
    THEN SelectSeq(recommendations, LAMBDA rec :
             InExperienceLevel(Get(experienceLevel),
                 FilterExperienceDays(Some(0),
                     Get(FindById(collection, rec.employee)).experience, today)))
    ELSE recommendations

EmployeeWithExperience(experience) ==
    Employee(1, <<>>,
             <<[name |-> Coding, category |-> Some("technology"),
                level |-> Some("professional")]>>,
             AustinTXUSLocation, experience, <<>>, <<>>, <<>>, 1)

ExperienceFilterInit ==
    /\ \E experience \in SeqUpTo(ExperienceEntries, MaxExperienceEntries) :
          employees = <<EmployeeWithExperience(experience)>>
    /\ opportunities = <<>>
    /\ applications = {}
    /\ handlers = NoHandlers
    /\ now = Today
    /\ request = NoRequest
    /\ response = Pending

RecommendEmployeesRoute ==
    \E organization \in OrganizationCollection, limit \in 1..MaxLimit,
       experienceLevel \in {None} \cup {Some(l) : l \in ExperienceLevels} :
        /\ request = NoRequest
        /\ request' = [fn |-> "GET /employees", organizationId |-> organization._id,
                       limit |-> limit, experienceLevel |-> experienceLevel]
        /\ response' = [status |-> "ok",
                        items |-> FilterByExperienceLevel(
                                      getRecommendedEmployees(organization, employees, limit),
                                      experienceLevel, employees, now)]
        /\ UNCHANGED <<employees, opportunities, applications, handlers, now>>

ExperienceFilterNext == RecommendEmployeesRoute

ExperienceFilterSpec == ExperienceFilterInit /\ [][ExperienceFilterNext]_vars

\* The recommendations the route filters.
Unfiltered ==
    getRecommendedEmployees(
        CHOOSE o \in OrganizationCollection : o._id = request.organizationId,
        employees, request.limit)

\* C19: the experienceLevel filter of the employee-recommendations route
\* places an employee by the same total as calculateTotalExperience: the sum
\* over all entries of max(0, end-or-now minus start), each entry floored at
\* 0 before summing, never negative.
C19_FilterUsesFlooredTotal ==
    (request.fn = "GET /employees" /\ IsSome(request.experienceLevel)) =>
        \A i \in 1..Len(Unfiltered) :
            LET experience == Get(FindById(employees, Unfiltered[i].employee)).experience
                total == TotalExperienceDays(Some(0), experience, now)
            IN  IsSome(total) =>
                    ((\E j \in 1..Len(response.items) : response.items[j] = Unfiltered[i])
                     <=> InExperienceLevel(Get(request.experienceLevel), Get(total)))

(***************************************************************************)
(* Properties of the weight shares of calculateMatchScore.                 *)
(***************************************************************************)
Terms == response.terms
Requirements == request.opportunity.requirements

\* C20: calculateMatchScore returns round(points), where points is the sum
\* of shares of at most 40 (skills), 25 (experience), 15 (location), 10
\* (education) and 10 (industry preference); the denominator is 100 for
\* every opportunity, so a category for which the opportunity states no
\* requirement contributes 0 points rather than its full share.
C20_RoundedPointsOutOfHundred ==
    (MatchScoreCallDone /\ response.status = "ok") =>
        /\ FracLeq(Frac(0, 1), Terms.skills) /\ FracLeq(Terms.skills, Frac(40, 1))
        /\ FracLeq(Frac(0, 1), Get(Terms.experience))
        /\ FracLeq(Get(Terms.experience), Frac(25, 1))
        /\ Terms.location \in 0..15
        /\ Terms.education \in 0..10
        /\ Terms.preferences \in 0..10
        /\ response.value =
              MathRound(FracAdd(FracAdd(Terms.skills, Get(Terms.experience)),
                                Frac(Terms.location + Terms.education + Terms.preferences, 1)))
        /\ Len(Requirements.skills) = 0 => FracEq(Terms.skills, Frac(0, 1))
        /\ ~IsSome(Requirements.experience.minYears) => FracEq(Get(Terms.experience), Frac(0, 1))
        /\ Len(Requirements.education) = 0 => Terms.education = 0
        /\ request.opportunity.location.type \notin {Some("on-site"), Some("remote")}
              => Terms.location = 0

\* An opportunity that states an education requirement only has scored an
\* employee who meets it: 10 out of 100, not 10 out of 10.
C20_Witness ==
    /\ MatchScoreCallDone /\ response.status = "ok"
    /\ Len(Requirements.skills) = 0
    /\ ~IsSome(Requirements.experience.minYears)
    /\ Len(Requirements.education) > 0
    /\ Terms.education = 10
    /\ Terms.location = 0 /\ Terms.preferences = 0
    /\ response.value = 10

(***************************************************************************)
(* The location term of calculateMatchScore against the ladder.            *)
(***************************************************************************)
\* The ladder's value for the records of the call.
LadderValue ==
    calculateLocationMatch(Some(request.employee.location),
                           Some(request.opportunity.location),
                           request.opportunity.location.type)

\* C21: the location term of calculateMatchScore equals 0.15 times the
\* value the location ladder gives for the same employee location,
\* opportunity location and work mode.
C21_LocationTermIsScaledLadder ==
    (MatchScoreCallDone /\ response.status \in {"ok", "NaN"}) =>
        100 * response.terms.location = 15 * LadderValue

(***************************************************************************)
(* The reason generators: getMatchReasons (routes/matching.js:350-381),    *)
(* generateMatchReasons and generateEmployeeMatchReasons (part_000:236-    *)
(* 317).  A reason is kept as its kind, its fixed text, the count and the  *)
(* names the template interpolates.                                        *)
(***************************************************************************)
Reason(kind, label, count, names) ==
    [kind |-> kind, label |-> label, count |-> count, names |-> names]

\* The if / else-if chain on matchScore; matchScore is None for NaN, which
\* fails every comparison.
BandReasons(matchScore) ==
    IF IsSome(matchScore) /\ Get(matchScore) >= 80
    THEN <<Reason("band", "Excellent match", 0, <<>>)>>
    ELSE IF IsSome(matchScore) /\ Get(matchScore) >= 60
    THEN <<Reason("band", "Good match", 0, <<>>)>>
    ELSE IF IsSome(matchScore) /\ Get(matchScore) >= 40
    THEN <<Reason("band", "Moderate match", 0, <<>>)>>
    ELSE <<Reason("band", "Basic match", 0, <<>>)>>

\* requiredSkills.filter(skill => employeeSkills.some(...)).length
MatchingSkillCount(opportunity, employee) ==
    LET skills == opportunity.requirements.skills
        requiredSkills == [i \in 1..Len(skills) |-> toLowerCase(skills[i].name)]
        employeeSkills == [i \in 1..Len(employee.skills) |->
                               toLowerCase(employee.skills[i].name)]
    IN  Len(SelectSeq(requiredSkills, LAMBDA skill :
                \E i \in 1..Len(employeeSkills) :
                    \/ includes(employeeSkills[i], skill)
                    \/ includes(skill, employeeSkills[i])))

SkillCountReasons(opportunity, employee) ==
    IF Len(opportunity.requirements.skills) > 0 /\ MatchingSkillCount(opportunity, employee) > 0
    THEN <<Reason("skills", "matching skills", MatchingSkillCount(opportunity, employee), <<>>)>>
    ELSE <<>>

RemotePreferenceReasons(opportunity, employee) ==
    IF /\ opportunity.location.type = Some("remote")
       /\ \E i \in 1..Len(employee.preferences.workMode) :
              employee.preferences.workMode[i] = "remote"
    THEN <<Reason("remote", "Remote work preference match", 0, <<>>)>>
    ELSE <<>>

\* A chain of independent ifs: every band whose threshold is met is pushed.
getMatchReasonsEveryBand(opportunity, employee, matchScore) ==
    (IF IsSome(matchScore) /\ Get(matchScore) >= 80
     THEN <<Reason("band", "Excellent match", 0, <<>>)>> ELSE <<>>)
    \o (IF IsSome(matchScore) /\ Get(matchScore) >= 60
        THEN <<Reason("band", "Good match", 0, <<>>)>> ELSE <<>>)
    \o (IF IsSome(matchScore) /\ Get(matchScore) >= 40
        THEN <<Reason("band", "Moderate match", 0, <<>>)>> ELSE <<>>)
    \o SkillCountReasons(opportunity, employee)
    \o RemotePreferenceReasons(opportunity, employee)

getMatchReasons(opportunity, employee, matchScore) ==
    BandReasons(matchScore)
    \o SkillCountReasons(opportunity, employee)
    \o RemotePreferenceReasons(opportunity, employee)

StrongLevels == {Some("intermediate"), Some("advanced"), Some("expert")}

\* employee.skills.filter(...): the names of the employee's skills that a
\* required skill names and that are held at a strong level.
StrongSkillReasons(employee, required) ==
    LET matchingSkills ==
            SelectSeq(employee.skills, LAMBDA empSkill :
                \E k \in 1..Len(required) :
                    /\ toLowerCase(empSkill.name) = toLowerCase(required[k].name)
                    /\ empSkill.level \in StrongLevels)
    IN  IF Len(matchingSkills) > 0
        THEN <<Reason("skills", "Strong skills in", 0,
                      [i \in 1..Len(matchingSkills) |-> matchingSkills[i].name])>>
        ELSE <<>>

SharedInterestReasons(employee, organization) ==
    LET preferred == organization.requirements.preferredInterests
        matchingInterests ==
            SelectSeq(employee.interests, LAMBDA empInterest :
                \E k \in 1..Len(preferred) :
                    \/ toLowerCase(empInterest.name) = toLowerCase(preferred[k].name)
                    \/ empInterest.category = preferred[k].category)
    IN  IF Len(matchingInterests) > 0
        THEN <<Reason("interests", "Shared interests", 0,
                      [i \in 1..Len(matchingInterests) |-> matchingInterests[i].name])>>
        ELSE <<>>

SameLocationReason(employee) ==
    <<Reason("location", "Same location", 0,
             IF IsSome(employee.location.city) THEN <<Get(employee.location.city)>> ELSE <<>>)>>

\* if (same city) ... else if (remote) ...
LocationReasons(employee, opportunity, organization) ==
    IF employee.location.city = organization.location.city
    THEN SameLocationReason(employee)
    ELSE IF opportunity.location.type = Some("remote")
    THEN <<Reason("remote", "Remote work opportunity", 0, <<>>)>>
    ELSE <<>>

\* A generator that pushes the location reason before the others.
generateMatchReasonsLocationFirst(employee, opportunity, organization) ==
    LocationReasons(employee, opportunity, organization)
    \o StrongSkillReasons(employee, opportunity.requirements.skills)
    \o SharedInterestReasons(employee, organization)

generateMatchReasons(employee, opportunity, organization) ==
    StrongSkillReasons(employee, opportunity.requirements.skills)
    \o SharedInterestReasons(employee, organization)
    \o LocationReasons(employee, opportunity, organization)

generateEmployeeMatchReasons(employee, organization) ==
    StrongSkillReasons(employee, organization.requirements.preferredSkills)
    \o SharedInterestReasons(employee, organization)
    \o (IF employee.location.city = organization.location.city
        THEN SameLocationReason(employee) ELSE <<>>)

(***************************************************************************)
(* Specification of the reason generators as functions of the records.     *)
(***************************************************************************)
ReasonEmployeeSkillLists == {<<>>} \cup EmployeeSkillLists

\* getMatchReasons with the score calculateMatchScore gives the pair.
ReasonsInitMatch ==
    \E skills \in OpportunitySkillLists, minYears \in {None, Some(5)},
       education \in {<<>>, <<[level |-> Some(Bachelor)]>>},
       location \in OpportunityLocations,
       employeeSkills \in ReasonEmployeeSkillLists, employeeLocation \in EmployeeLocations,
       experience \in ExperienceLists,
       employeeEducation \in {<<>>, <<[degree |-> BachelorCap]>>},
       workMode \in {<<>>, <<"remote", "hybrid">>},
       industries \in {<<>>, <<Finance, Technology>>} :
        request = [fn |-> "getMatchReasons",
                   opportunity |-> Opportunity(1, Some(TechOrganization), skills, minYears,
                                               education, location, "job", None, 1),
                   employee |-> Employee(1, employeeSkills, <<>>, employeeLocation, experience,
                                         employeeEducation, workMode, industries, 1)]

ReasonsInitOpportunity ==
    \E skills \in OpportunitySkillLists,
       location \in {RemoteLocation, HybridIn(AustinTXUSLocation)},
       organization \in OrganizationCollection,
       employeeSkills \in ReasonEmployeeSkillLists, interests \in EmployeeInterestLists,
       employeeLocation \in {AustinTXUSLocation, DallasTXUSLocation} :
        request = [fn |-> "generateMatchReasons",
                   employee |-> Employee(1, employeeSkills, interests, employeeLocation,
                                         <<>>, <<>>, <<>>, <<>>, 1),
                   opportunity |-> Opportunity(1, Some(organization), skills, None, <<>>,
                                               location, "job", None, 1),
                   organization |-> organization]

ReasonsInitEmployee ==
    \E preferredSkills \in PreferredSkillLists, preferredInterests \in PreferredInterestLists,
       location \in {AustinTXUSLocation, DallasCAINLocation},
       employeeSkills \in ReasonEmployeeSkillLists, interests \in EmployeeInterestLists,
       employeeLocation \in {AustinTXUSLocation, DallasTXUSLocation} :
        request = [fn |-> "generateEmployeeMatchReasons",
                   employee |-> Employee(1, employeeSkills, interests, employeeLocation,
                                         <<>>, <<>>, <<>>, <<>>, 1),
                   organization |-> Organization(1, Technology, location, preferredSkills,
                                                 preferredInterests)]

ReasonsInit ==
    /\ employees = <<>>
    /\ opportunities = <<>>
    /\ applications = {}
    /\ handlers = NoHandlers
    /\ now = Today
    /\ (ReasonsInitMatch \/ ReasonsInitOpportunity \/ ReasonsInitEmployee)
    /\ response = Pending

\* matching.js:72-76: the score, then the reasons for it.
CallGetMatchReasons ==
    /\ request.fn = "getMatchReasons"
    /\ response = Pending
    /\ LET matchScore == calculateMatchScore(request.opportunity, request.employee, now)
       IN  response' =
             IF matchScore.status = "throw" THEN [status |-> "throw"]
             ELSE LET score == IF matchScore.status = "ok" THEN Some(matchScore.value)
                               ELSE None
                  IN  [status |-> "ok", matchScore |-> score,
                       reasons |-> getMatchReasons(request.opportunity, request.employee,
                                                   score)]
    /\ UNCHANGED <<employees, opportunities, applications, handlers, now, request>>

CallGenerateMatchReasons ==
    /\ request.fn = "generateMatchReasons"
    /\ response = Pending
    /\ response' = [status |-> "ok",
                    reasons |-> generateMatchReasons(request.employee, request.opportunity,
                                                     request.organization)]
    /\ UNCHANGED <<employees, opportunities, applications, handlers, now, request>>

CallGenerateEmployeeMatchReasons ==
    /\ request.fn = "generateEmployeeMatchReasons"
    /\ response = Pending
    /\ response' = [status |-> "ok",
                    reasons |-> generateEmployeeMatchReasons(request.employee,
                                                             request.organization)]
    /\ UNCHANGED <<employees, opportunities, applications, handlers, now, request>>

ReasonsNext ==
    CallGetMatchReasons \/ CallGenerateMatchReasons \/ CallGenerateEmployeeMatchReasons

ReasonsSpec == ReasonsInit /\ [][ReasonsNext]_vars

BandLabels == {"Excellent match", "Good match", "Moderate match", "Basic match"}
GetMatchReasonsDone == request.fn = "getMatchReasons" /\ response.status = "ok"

\* C22: getMatchReasons returns a list whose first element is the one band
\* label the overall score determines: 'Excellent match' from 80, 'Good
\* match' from 60 and below 80, 'Moderate match' from 40 and below 60,
\* 'Basic match' otherwise; no list contains two band labels.
C22_OneBandLabelFirst ==
    GetMatchReasonsDone =>
        /\ Len(response.reasons) >= 1
        /\ response.reasons[1].label \in BandLabels
        /\ \A i \in 2..Len(response.reasons) : response.reasons[i].label \notin BandLabels
        /\ LET score == response.matchScore
               label == response.reasons[1].label
           IN  /\ label = "Excellent match" <=> (IsSome(score) /\ Get(score) >= 80)
               /\ label = "Good match" <=>
                     (IsSome(score) /\ Get(score) >= 60 /\ Get(score) < 80)
               /\ label = "Moderate match" <=>
                     (IsSome(score) /\ Get(score) >= 40 /\ Get(score) < 60)

\* A score of at least 80 has been labelled, with a skill count and the
\* remote note after the label.
C22_Witness ==
    /\ GetMatchReasonsDone
    /\ IsSome(response.matchScore) /\ Get(response.matchScore) >= 80
    /\ Len(response.reasons) = 3
    /\ response.reasons[1].label = "Excellent match"

\* The place of a kind of reason in a list.
KindRank(kind) ==
    CASE kind = "band" -> 0
      [] kind = "skills" -> 1
      [] kind = "interests" -> 2
      [] OTHER -> 3

ReasonsDone ==
    /\ request.fn \in {"getMatchReasons", "generateMatchReasons",
                       "generateEmployeeMatchReasons"}
    /\ response.status = "ok"

\* C23: the reason generators return, for the same inputs, the same list,
\* and within a returned list a skill reason precedes an interest reason,
\* which precedes a location reason (same city or remote work).
C23_StableAndOrdered ==
    ReasonsDone =>
        /\ \A i, j \in 1..Len(response.reasons) :
              i < j => KindRank(response.reasons[i].kind) < KindRank(response.reasons[j].kind)
        /\ request.fn = "generateMatchReasons" =>
              response.reasons = generateMatchReasons(request.employee, request.opportunity,
                                                      request.organization)
        /\ request.fn = "generateEmployeeMatchReasons" =>
              response.reasons = generateEmployeeMatchReasons(request.employee,
                                                              request.organization)
        /\ request.fn = "getMatchReasons" =>
              response.reasons = getMatchReasons(request.opportunity, request.employee,
                                                 response.matchScore)

\* A list with a skill, an interest and a location reason has been returned.
C23_Witness ==
    /\ ReasonsDone
    /\ request.fn = "generateMatchReasons"
    /\ Len(response.reasons) = 3
    /\ response.reasons[1].kind = "skills"
    /\ response.reasons[2].kind = "interests"
    /\ response.reasons[3].kind = "location"

(***************************************************************************)
(* The application routes (routes/application.js): submit, status update   *)
(* and withdraw.  A handler reads the collection (findOne) and writes it   *)
(* (save) in two steps, and the handlers of other requests run between     *)
(* the two.                                                                *)
(***************************************************************************)
MaxClients == 2
MaxSubmitted == 2

Clients == 1..MaxClients

\* The position of a handler: the route, where it stands, the parameters of
\* the request, the status it loaded, and the HTTP status code it sent.
Handler(route, pc, employee, opportunity, id, status, loaded, code) ==
    [route |-> route, pc |-> pc, employee |-> employee, opportunity |-> opportunity,
     id |-> id, status |-> status, loaded |-> loaded, code |-> code]

Idle == Handler("none", "idle", 0, 0, 0, "", "", 0)
Sent(route, employee, opportunity, id, code) ==
    Handler(route, "done", employee, opportunity, id, "", "", code)

\* Application.findOne({opportunity, employee, isActive: true})
ExistingApplications(apps, opportunityId, employeeId) ==
    {a \in apps : a.opportunity = opportunityId /\ a.employee = employeeId /\ a.isActive}

\* The submit handlers that have passed the checks and not yet saved.
Saving == {c \in Clients : handlers[c].route = "submit" /\ handlers[c].pc = "save"}

\* POST /api/applications up to Application.findOne (application.js:53-90)
SubmitChecks(apps, collection, employeeId, opportunityId, today) ==
    LET opportunity == FindById(collection, opportunityId)
    IN  IF ~IsSome(opportunity) \/ ~Get(opportunity).isActive
        THEN Sent("submit", employeeId, opportunityId, 0, 404)
        ELSE IF /\ IsSome(Get(opportunity).application.deadline)
                /\ Get(Get(opportunity).application.deadline) < today
        THEN Sent("submit", employeeId, opportunityId, 0, 400)
        ELSE IF ExistingApplications(apps, opportunityId, employeeId) # {}
        THEN Sent("submit", employeeId, opportunityId, 0, 400)
        ELSE Handler("submit", "save", employeeId, opportunityId, 0, "", "", 0)

SubmitFind(c) ==
    /\ handlers[c].pc \in {"idle", "done"}
    /\ \E employeeId \in 1..Len(employees), opportunityId \in 0..Len(opportunities) :
          LET next == SubmitChecks(applications, opportunities, employeeId, opportunityId, now)
          IN  /\ next.pc = "save" => Cardinality(applications) + Cardinality(Saving) < MaxSubmitted
              /\ handlers' = [handlers EXCEPT ![c] = next]
    /\ UNCHANGED <<employees, opportunities, applications, now, request, response>>

\* new Application({...}) and application.save() (application.js:115-149)
SubmitSave(c) ==
    /\ handlers[c].route = "submit" /\ handlers[c].pc = "save"
    /\ LET opportunity == Get(FindById(opportunities, handlers[c].opportunity))
           id == Cardinality(applications) + 1
       IN  IF IsSome(opportunity.organization)
           THEN /\ applications' = applications \cup
                       {Application(id, handlers[c].opportunity, handlers[c].employee,
                                    Get(opportunity.organization)._id, TRUE)}
                /\ handlers' = [handlers EXCEPT ![c] =
                                   Sent("submit", handlers[c].employee,
                                        handlers[c].opportunity, 0, 201)]
           ELSE /\ applications' = applications
                /\ handlers' = [handlers EXCEPT ![c] =
                                   Sent("submit", handlers[c].employee,
                                        handlers[c].opportunity, 0, 500)]
    /\ UNCHANGED <<employees, opportunities, now, request, response>>

\* body('status').isIn([...])
ValidStatuses == {"submitted", "reviewing", "shortlisted", "interview", "accepted", "rejected"}
\* The statuses the requests of the model ask for: a valid one and one the
\* validator rejects.
StatusInputs == {"accepted", "withdrawn"}

\* PUT /api/applications/:id/status up to Application.findOne
\* (application.js:286-322)
StatusChecks(apps, id, organizationId, status) ==
    LET found == {a \in apps : a._id = id /\ a.organization = organizationId /\ a.isActive}
    IN  IF status \notin ValidStatuses THEN Sent("status", 0, 0, 0, 400)
        ELSE IF found = {} THEN Sent("status", 0, 0, 0, 404)
        ELSE Handler("status", "save", 0, 0, id, status,
                     (CHOOSE a \in found : TRUE).status, 0)

StatusFind(c) ==
    /\ handlers[c].pc \in {"idle", "done"}
    /\ \E id \in 1..MaxSubmitted, organization \in OrganizationCollection,
          status \in StatusInputs :
            handlers' = [handlers EXCEPT ![c] =
                            StatusChecks(applications, id, organization._id, status)]
    /\ UNCHANGED <<employees, opportunities, applications, now, request, response>>

\* application.save() of a loaded document: the paths that were assigned a
\* value other than the loaded one are written.
SaveStatus(apps, id, loaded, status) ==
    {IF a._id = id /\ status # loaded THEN [a EXCEPT !.status = status] ELSE a : a \in apps}

\* application.status = status; application.save() (application.js:324-345)
StatusSave(c) ==
    /\ handlers[c].route = "status" /\ handlers[c].pc = "save"
    /\ applications' = SaveStatus(applications, handlers[c].id, handlers[c].loaded,
                                  handlers[c].status)
    /\ handlers' = [handlers EXCEPT ![c] = Sent("status", 0, 0, 0, 200)]
    /\ UNCHANGED <<employees, opportunities, now, request, response>>

\* PUT /api/applications/:id/withdraw up to the check of the status
\* (application.js:373-401)
WithdrawChecks(apps, id, employeeId) ==
    LET found == {a \in apps : a._id = id /\ a.employee = employeeId /\ a.isActive}
    IN  IF found = {} THEN Sent("withdraw", employeeId, 0, id, 404)
        ELSE IF (CHOOSE a \in found : TRUE).status = "accepted"
        THEN Sent("withdraw", employeeId, 0, id, 400)
        ELSE Handler("withdraw", "save", employeeId, 0, id, "withdrawn",
                     (CHOOSE a \in found : TRUE).status, 0)

WithdrawFind(c) ==
    /\ handlers[c].pc \in {"idle", "done"}
    /\ \E id \in 1..MaxSubmitted, employeeId \in 1..Len(employees) :
          handlers' = [handlers EXCEPT ![c] = WithdrawChecks(applications, id, employeeId)]
    /\ UNCHANGED <<employees, opportunities, applications, now, request, response>>

\* application.status = 'withdrawn'; application.withdrawnAt = new Date();
\* application.save() (application.js:403-406)
WithdrawSave(c) ==
    /\ handlers[c].route = "withdraw" /\ handlers[c].pc = "save"
    /\ applications' =
          {IF a._id = handlers[c].id THEN [a EXCEPT !.withdrawnAt = Some(now)] ELSE a :
              a \in SaveStatus(applications, handlers[c].id, handlers[c].loaded, "withdrawn")}
    /\ handlers' = [handlers EXCEPT ![c] =
                       Sent("withdraw", handlers[c].employee, 0, handlers[c].id, 200)]
    /\ UNCHANGED <<employees, opportunities, now, request, response>>

\* The store of the application routes: two employees, an open opportunity
\* and one whose deadline has passed.
ApplicationEmployees == <<EmployeeTemplate(1, 1, 1), EmployeeTemplate(2, 2, 2)>>
ApplicationOpportunities ==
    <<OpportunityTemplate(2, 1, 1),
      [OpportunityTemplate(3, 2, 2) EXCEPT !.application.deadline = Some(Today - 1)]>>

ApplicationInit ==
    /\ employees = ApplicationEmployees
    /\ opportunities = ApplicationOpportunities
    /\ applications = {}
    /\ handlers = [c \in Clients |-> Idle]
    /\ now = Today
    /\ request = NoRequest
    /\ response = Pending

ApplicationNext ==
    \E c \in Clients :
        \/ SubmitFind(c) \/ SubmitSave(c)
        \/ StatusFind(c) \/ StatusSave(c)
        \/ WithdrawFind(c) \/ WithdrawSave(c)

ApplicationSpec == ApplicationInit /\ [][ApplicationNext]_vars

(***************************************************************************)
(* Properties of the application routes.                                   *)
(***************************************************************************)
\* C24: at no time do two active applications exist for the same employee
\* and opportunity, including when two submit requests for the pair are
\* processed concurrently and their find-existing and save steps
\* interleave.
C24_OneActiveApplicationPerPair ==
    \A a, b \in applications :
        (a.isActive /\ b.isActive /\ a.employee = b.employee /\ a.opportunity = b.opportunity)
            => a._id = b._id

\* The handler of client c has just been started on a withdraw request.
WithdrawStarted(c) ==
    /\ handlers[c].pc \in {"idle", "done"}
    /\ handlers'[c].route = "withdraw"
    /\ handlers'[c] # handlers[c]

\* The active applications the request names that the calling employee owns.
OwnedBy(h) ==
    {a \in applications : a._id = h.id /\ a.employee = h.employee /\ a.isActive}

\* C25: a withdraw request on an active application whose status is
\* 'accepted' is rejected with status 400 and leaves the application's
\* status and withdrawnAt unchanged; a withdraw request on any other active
\* application owned by the calling employee sets its status to
\* 'withdrawn'.  A request is rejected on the status its handler finds, and a
\* request that is answered 200 has withdrawn an application that was not
\* accepted.
C25_WithdrawRule ==
    [][\A c \in Clients :
          /\ WithdrawStarted(c) =>
                /\ (\E a \in OwnedBy(handlers'[c]) : a.status = "accepted")
                      => /\ handlers'[c].pc = "done" /\ handlers'[c].code = 400
                         /\ applications' = applications
                /\ (\E a \in OwnedBy(handlers'[c]) : a.status # "accepted")
                      => handlers'[c].pc = "save"
          /\ (handlers[c].route = "withdraw" /\ handlers[c].pc = "save"
              /\ handlers'[c].pc = "done")
                => /\ handlers'[c].code = 200
                   /\ \A a \in applications : a._id = handlers[c].id => a.status # "accepted"
                   /\ \A a \in applications' :
                         a._id = handlers[c].id
                             => a.status = "withdrawn" /\ a.withdrawnAt = Some(now)]_vars

\* C26: 'withdrawn' is a terminal application status: once an application
\* is withdrawn, no status-update, withdraw or submit operation changes its
\* status.
C26_WithdrawnIsTerminal ==
    [][\A a \in applications :
          a.status = "withdrawn"
              => \E b \in applications' : b._id = a._id /\ b.status = "withdrawn"]_vars

(***************************************************************************)
(* The matching routes over a store whose applications are submitted,      *)
(* updated and withdrawn by one request at a time.                         *)
(***************************************************************************)
ApplicationMatchingNext ==
    \/ SubmitFind(1) \/ SubmitSave(1)
    \/ StatusFind(1) \/ StatusSave(1)
    \/ WithdrawFind(1) \/ WithdrawSave(1)
    \/ MatchingCandidates
    \/ MatchingOpportunities
    \/ Reply

ApplicationMatchingSpec == ApplicationInit /\ [][ApplicationMatchingNext]_vars

\* employee and opportunity have an active application record on file.
HasActiveRecord(employeeId, opportunityId) ==
    \E a \in applications :
        a.isActive /\ a.employee = employeeId /\ a.opportunity = opportunityId

\* C27: after any sequence of submit, status-update and withdraw
\* operations, an employee who has an active application record for an
\* opportunity is never returned among that opportunity's matching
\* candidates, and that opportunity is never returned among the employee's
\* matching opportunities; an employee with no application record for the
\* opportunity is not excluded on that ground (the total counts everyone
\* who meets the other criteria and has no such record).
C27_AppliedPairsNeverMatched ==
    [][/\ (request = NoRequest /\ request'.fn = "matchingCandidates"
           /\ response'.status = "ok")
          => LET opportunity == Get(FindById(opportunities, request'.opportunityId))
                 others == {i \in 1..Len(employees) :
                               /\ CandidateCriteria({}, opportunity, employees[i])
                               /\ ~HasActiveRecord(employees[i]._id, opportunity._id)}
             IN  /\ \A k \in 1..Len(response'.items) :
                       ~HasActiveRecord(response'.items[k].id, opportunity._id)
                 /\ response'.total = Cardinality(others)
       /\ (request = NoRequest /\ request'.fn = "matchingOpportunities"
           /\ response'.status = "ok")
          => LET employee == Get(FindById(employees, request'.employeeId))
                 others == {i \in 1..Len(opportunities) :
                               /\ OpportunityCriteria({}, employee, opportunities[i], now)
                               /\ ~HasActiveRecord(employee._id, opportunities[i]._id)}
             IN  /\ \A k \in 1..Len(response'.items) :
                       ~HasActiveRecord(employee._id, response'.items[k].id)
                 /\ response'.total = Cardinality(others)]_vars

\* The candidates of an opportunity have been served while one employee's
\* application to it was withdrawn and still on file: the other employee is
\* returned, the applicant is not.
C27_Witness ==
    /\ request.fn = "matchingCandidates" /\ response.status = "ok"
    /\ handlers[1].pc # "save"
    /\ \E a \in applications :
          /\ a.isActive /\ a.status = "withdrawn"
          /\ a.opportunity = request.opportunityId /\ a.employee = 1
    /\ ~HasActiveRecord(2, request.opportunityId)
    /\ response.total = 1
    /\ Len(response.items) = 1 /\ response.items[1].id = 2

(***************************************************************************)
(* Specification of the skill matcher over an employee's skill list before *)
(* and after a change to it: a skill added under a new name, or the level  *)
(* of a possessed skill raised.                                            *)
(***************************************************************************)
\* es with a skill appended whose name it does not hold.
WithAddedSkill(es) ==
    {Append(es, r) : r \in {x \in EmployeeSkillRecords : ~HoldsName(es, x)}}

\* A list, one of its positions and a level above the one held there.
RaisedPairs ==
    {<<es, i, l>> \in SeqUpTo(EmployeeSkillRecords, MaxEmployeeSkills - 1)
                      \X (1..MaxEmployeeSkills) \X EmployeeSkillLevels :
        i <= Len(es) /\ SkillLevelScore(Some(l)) > SkillLevelScore(es[i].level)}

SkillChangeInit ==
    /\ employees = <<>>
    /\ opportunities = <<>>
    /\ applications = {}
    /\ handlers = NoHandlers
    /\ now = 0
    /\ \E rs \in SeqUpTo(RequiredSkillRecords, MaxRequiredSkills) :
          \/ \E es \in SeqUpTo(EmployeeSkillRecords, MaxEmployeeSkills - 1) :
                \E after \in WithAddedSkill(es) :
                    request = [fn |-> "calculateSkillMatch", change |-> "added",
                               before |-> es, after |-> after, orgRequirements |-> rs]
          \/ \E p \in RaisedPairs :
                request = [fn |-> "calculateSkillMatch", change |-> "raised",
                           before |-> p[1],
                           after |-> [p[1] EXCEPT ![p[2]].level = Some(p[3])],
                           orgRequirements |-> rs]
    /\ response = Pending

\* The matcher applied to both lists.
CallSkillMatchTwice ==
    /\ request.fn = "calculateSkillMatch"
    /\ response = Pending
    /\ response' = [status |-> "ok",
                    before |-> calculateSkillMatch(Some(request.before),
                                                   Some(request.orgRequirements)),
                    after |-> calculateSkillMatch(Some(request.after),
                                                  Some(request.orgRequirements))]
    /\ UNCHANGED <<employees, opportunities, applications, handlers, now, request>>

SkillChangeNext == CallSkillMatchTwice

SkillChangeSpec == SkillChangeInit /\ [][SkillChangeNext]_vars

SkillChangeDone == request.fn = "calculateSkillMatch" /\ response.status = "ok"

\* C28 as stated: calculateSkillMatch is monotone in the employee's skill
\* set: adding a skill under a name the employee did not possess never
\* lowers the score, and raising the level of a possessed skill never
\* lowers it.
C28_Monotone ==
    SkillChangeDone => FracLeq(response.before, response.after)

\* The added skill, and the required skills it is matched with.
AddedSkill == request.after[Len(request.after)]
MatchedByAdded ==
    {k \in 1..Len(request.orgRequirements) :
        toLowerCase(request.orgRequirements[k].name) = toLowerCase(AddedSkill.name)}

\* C28 amended: raising the level of a possessed skill never lowers the
\* score.  Adding a skill under a new name never lowers it when every
\* required skill of that name is mandatory or is required at a level at or
\* below the added one; an added skill held below the level of an optional
\* required skill can lower the score, because an optional skill that is
\* absent is left out of the denominator.
C28_MonotoneButForOptionalSkills ==
    SkillChangeDone =>
        /\ request.change = "raised" => FracLeq(response.before, response.after)
        /\ (/\ request.change = "added"
            /\ \A k \in MatchedByAdded :
                  \/ request.orgRequirements[k].isRequired
                  \/ SkillLevelScore(AddedSkill.level)
                        >= SkillLevelScore(request.orgRequirements[k].level))
           => FracLeq(response.before, response.after)

\* A mandatory skill added below its required level has raised the score.
C28_Witness ==
    /\ SkillChangeDone
    /\ request.change = "added"
    /\ \E k \in MatchedByAdded :
          /\ request.orgRequirements[k].isRequired
          /\ SkillLevelScore(AddedSkill.level)
                < SkillLevelScore(request.orgRequirements[k].level)
    /\ ~FracLeq(response.after, response.before)

(***************************************************************************)
(* Specification of the interest matcher over two orders of the same       *)
(* possessed interests.                                                    *)
(***************************************************************************)
\* The permutations of 1..n.
IndexOrders(n) == {p \in [1..n -> 1..n] : \A i, j \in 1..n : i # j => p[i] # p[j]}

InterestOrderInit ==
    /\ employees = <<>>
    /\ opportunities = <<>>
    /\ applications = {}
    /\ handlers = NoHandlers
    /\ now = 0
    /\ \E eis \in SeqUpTo(EmployeeInterestRecords, MaxEmployeeInterests),
          ois \in SeqUpTo(PreferredInterestRecords, MaxPreferredInterests - 1) :
            \E p \in IndexOrders(Len(eis)) :
                request = [fn |-> "calculateInterestMatch",
                           employeeInterests |-> eis,
                           permuted |-> [i \in 1..Len(eis) |-> eis[p[i]]],
                           orgInterests |-> ois]
    /\ response = Pending

\* The matcher applied to both orders.
CallInterestMatchTwice ==
    /\ request.fn = "calculateInterestMatch"
    /\ response = Pending
    /\ response' = [status |-> "ok",
                    value |-> calculateInterestMatch(Some(request.employeeInterests),
                                                     Some(request.orgInterests)),
                    permuted |-> calculateInterestMatch(Some(request.permuted),
                                                        Some(request.orgInterests))]
    /\ UNCHANGED <<employees, opportunities, applications, handlers, now, request>>

InterestOrderNext == CallInterestMatchTwice

InterestOrderSpec == InterestOrderInit /\ [][InterestOrderNext]_vars

\* C29: calculateInterestMatch does not depend on the order of the
\* employee's interest list: for a fixed preferred list, every permutation
\* of the same possessed interests yields the same score.
C29_OrderIndependent ==
    (request.fn = "calculateInterestMatch" /\ response.status = "ok")
        => FracEq(response.value, response.permuted)

(***************************************************************************)
(* searchOpportunities over stores that hold about as many opportunities   *)
(* as the recommendation limit it passes on.                               *)
(***************************************************************************)
MaxStore == 52
MinStore == SearchRecommendationLimit - 2

SearchStoreInit ==
    /\ employees = <<EmployeeTemplate(1, 1, 1), EmployeeTemplate(2, 2, 1)>>
    /\ \E n \in MinStore..MaxStore, t \in {2, 3}, c \in [1..2 -> 1..MaxTime] :
          opportunities =
              [i \in 1..n |-> OpportunityTemplate(t, i, IF i = n THEN c[2] ELSE c[1])]
    /\ applications = {}
    /\ handlers = NoHandlers
    /\ now = Today
    /\ request = NoRequest
    /\ response = Pending

SearchStoreNext == SearchOpportunities \/ Reply

SearchStoreSpec == SearchStoreInit /\ [][SearchStoreNext]_vars

SearchDone == request.fn = "searchOpportunities" /\ response.status = "ok"

\* The opportunities the search criteria of the request select.
SearchFound ==
    {o \in {opportunities[i] : i \in 1..Len(opportunities)} :
        /\ o.status = "active" /\ o.visibility = "public"
        /\ IsSome(request.searchCriteria.type) => o.type = Get(request.searchCriteria.type)
        /\ IsSome(request.searchCriteria.location)
              => o.location.type = request.searchCriteria.location}

\* C30: searchOpportunities returns every active public opportunity
\* matching the filters, each carrying exactly the scores the
\* profile-weighted scorer computes for it when its unrounded overall
\* exceeds 30 and all-zero scores otherwise, for any number of
\* opportunities in the store; the list is ordered by overall descending,
\* then by createdAt descending.
C30_SearchCarriesScorerScores ==
    SearchDone =>
        LET employee == Get(FindById(employees, request.employeeId))
            items == response.items
        IN  /\ {items[k].opportunity : k \in 1..Len(items)} = {o._id : o \in SearchFound}
            /\ Len(items) = Cardinality(SearchFound)
            /\ \A k \in 1..Len(items) :
                  LET o == Get(FindById(opportunities, items[k].opportunity))
                      sc == OpportunityScores(employee, o)
                  IN  items[k].scores =
                          IF IsSome(o.organization) /\ IsRelevant(sc.overall)
                          THEN RoundedScores(sc.skill, sc.interest, sc.location)
                          ELSE ZeroScores
            /\ \A k \in 1..(Len(items) - 1) :
                  \/ items[k].scores.overall > items[k + 1].scores.overall
                  \/ /\ items[k].scores.overall = items[k + 1].scores.overall
                     /\ Get(FindById(opportunities, items[k].opportunity)).createdAt
                           >= Get(FindById(opportunities, items[k + 1].opportunity)).createdAt

====
